---------------------------- MODULE Spec2Model ----------------------------
(***************************************************************************)
(* FNOL claims agent: the routing engine (src/src/routing/engine.py), the  *)
(* upload handlers (src/src/main.py) and the field extractor               *)
(* (src/src/extraction/parser.py).                                         *)
(*                                                                         *)
(* Python strings are TLA+ strings (Len, SubSeq and \o work on them).      *)
(* An Optional[...] value is a sequence: <<>> is None, <<v>> is v.         *)
(***************************************************************************)
EXTENDS Integers, Sequences, FiniteSets, TLC

VARIABLES
    extracted,      \* routing: the ExtractedFields record under test
    missing_arg,    \* routing: compute_route's `missing` argument
    threshold_arg,  \* routing: compute_route's `threshold` argument (Optional)
    missing_out,    \* routing: Optional result of get_missing_mandatory_fields
    route_out,      \* routing: Optional result of compute_route
    rpc,            \* routing: position of the caller
    ex_input,       \* extractor: the document, as text or as PDF pages
    ex_out,         \* extractor: Optional returned ExtractedFields
    ex_accepted,    \* extractor: strings the classifier was called on and accepted
    epc,            \* extractor: position of the caller
    pe_out,         \* extractor: Optional response of process_extracted
    api_req,        \* handlers: the request being served
    api_pc,         \* handlers: position in the handler
    api_local,      \* handlers: the handler's locals (id, suffix, path, extracted)
    api_calls,      \* handlers: core functions invoked for this request, in order
    api_resp,       \* handlers: Optional response of this request
    tmp_files,      \* handlers: temporary files that exist, by request number
    served          \* handlers: number of requests received

routeVars == <<extracted, missing_arg, threshold_arg, missing_out, route_out, rpc>>

extractVars == <<ex_input, ex_out, ex_accepted, epc, pe_out>>

apiVars == <<api_req, api_pc, api_local, api_calls, api_resp, tmp_files, served>>

vars == <<routeVars, extractVars, apiVars>>

\* a component that takes no part in the specification at hand
RouteIdle ==
    /\ extracted = <<>> /\ missing_arg = <<>> /\ threshold_arg = <<>>
    /\ missing_out = <<>> /\ route_out = <<>> /\ rpc = "idle"

ExtractIdle ==
    /\ ex_input = <<>> /\ ex_out = <<>> /\ ex_accepted = {} /\ epc = "idle"
    /\ pe_out = <<>>

ApiIdle ==
    /\ api_req = <<>> /\ api_pc = "off" /\ api_local = <<>> /\ api_calls = <<>>
    /\ api_resp = <<>> /\ tmp_files = {} /\ served = 0

(***************************************************************************)
(* Optional values and Python string primitives                            *)
(***************************************************************************)
None == <<>>

Some(v) == <<v>>

IsNone(o) == o = <<>>

Val(o) == o[1]

CharAt(s, i) == SubSeq(s, i, i)

UpperLetters ==
    {"A","B","C","D","E","F","G","H","I","J","K","L","M",
     "N","O","P","Q","R","S","T","U","V","W","X","Y","Z"}

LowerLetters ==
    {"a","b","c","d","e","f","g","h","i","j","k","l","m",
     "n","o","p","q","r","s","t","u","v","w","x","y","z"}

Digits == {"0","1","2","3","4","5","6","7","8","9"}

\* str.strip() with no argument removes these from both ends
Whitespace == {" ", "\t", "\n", "\r"}

\* the regex class \w
IsWordChar(c) == c \in UpperLetters \cup LowerLetters \cup Digits \cup {"_"}

LowerChar(c) ==
    CASE c = "A" -> "a" [] c = "B" -> "b" [] c = "C" -> "c" [] c = "D" -> "d"
      [] c = "E" -> "e" [] c = "F" -> "f" [] c = "G" -> "g" [] c = "H" -> "h"
      [] c = "I" -> "i" [] c = "J" -> "j" [] c = "K" -> "k" [] c = "L" -> "l"
      [] c = "M" -> "m" [] c = "N" -> "n" [] c = "O" -> "o" [] c = "P" -> "p"
      [] c = "Q" -> "q" [] c = "R" -> "r" [] c = "S" -> "s" [] c = "T" -> "t"
      [] c = "U" -> "u" [] c = "V" -> "v" [] c = "W" -> "w" [] c = "X" -> "x"
      [] c = "Y" -> "y" [] c = "Z" -> "z" [] OTHER -> c

\* str.lower(), computed by halves
RECURSIVE Lower(_)
Lower(s) ==
    IF Len(s) = 0 THEN ""
    ELSE IF Len(s) = 1 THEN LowerChar(s)
    ELSE LET h == Len(s) \div 2
         IN  Lower(SubSeq(s, 1, h)) \o Lower(SubSeq(s, h + 1, Len(s)))

UpperChar(c) ==
    CASE c = "a" -> "A" [] c = "b" -> "B" [] c = "c" -> "C" [] c = "d" -> "D"
      [] c = "e" -> "E" [] c = "f" -> "F" [] c = "g" -> "G" [] c = "h" -> "H"
      [] c = "i" -> "I" [] c = "j" -> "J" [] c = "k" -> "K" [] c = "l" -> "L"
      [] c = "m" -> "M" [] c = "n" -> "N" [] c = "o" -> "O" [] c = "p" -> "P"
      [] c = "q" -> "Q" [] c = "r" -> "R" [] c = "s" -> "S" [] c = "t" -> "T"
      [] c = "u" -> "U" [] c = "v" -> "V" [] c = "w" -> "W" [] c = "x" -> "X"
      [] c = "y" -> "Y" [] c = "z" -> "Z" [] OTHER -> c

\* str.upper(), computed by halves
RECURSIVE Upper(_)
Upper(s) ==
    IF Len(s) = 0 THEN ""
    ELSE IF Len(s) = 1 THEN UpperChar(s)
    ELSE LET h == Len(s) \div 2
         IN  Upper(SubSeq(s, 1, h)) \o Upper(SubSeq(s, h + 1, Len(s)))

\* str.strip(): from the first to the last character that is not whitespace
Strip(s) ==
    LET keep == { k \in 1..Len(s) : CharAt(s, k) \notin Whitespace }
    IN  IF keep = {} THEN ""
        ELSE SubSeq(s, CHOOSE k \in keep : \A j \in keep : k <= j,
                       CHOOSE k \in keep : \A j \in keep : k >= j)

\* `sub in s`
Contains(s, sub) ==
    \E i \in 1..(Len(s) - Len(sub) + 1) : SubSeq(s, i, i + Len(sub) - 1) = sub

\* `x or ""` for an Optional[str]
OrEmpty(o) == IF IsNone(o) THEN "" ELSE Val(o)

\* truth value of `o and o.strip()` for an Optional[str]
PresentNonBlank(o) == ~IsNone(o) /\ Val(o) # "" /\ Strip(Val(o)) # ""

\* sep.join(names)
RECURSIVE Join(_, _)
Join(names, sep) ==
    IF names = <<>> THEN ""
    ELSE IF Len(names) = 1 THEN names[1]
    ELSE names[1] \o sep \o Join(Tail(names), sep)

\* str() of a non-negative integer
RECURSIVE NatStr(_)
NatStr(n) ==
    IF n < 10 THEN SubSeq("0123456789", n + 1, n + 1)
    ELSE NatStr(n \div 10) \o SubSeq("0123456789", (n % 10) + 1, (n % 10) + 1)

\* the f-string rendering of a whole-valued float: 25000.0
FloatStr(x) == NatStr(x) \o ".0"

(***************************************************************************)
(* src/src/config.py and src/src/schemas.py                                *)
(***************************************************************************)
fast_track_damage_threshold == 25000

MANDATORY_FIELDS ==
    << "policy_number", "policyholder_name", "incident_date",
       "incident_location", "incident_description", "claim_type",
       "initial_estimate_or_estimated_damage" >>

(***************************************************************************)
(* src/src/routing/engine.py                                               *)
(***************************************************************************)
INVESTIGATION_KEYWORDS == {"fraud", "inconsistent", "staged"}

\* the search without re.IGNORECASE
KeywordSearch_CaseSensitive(desc) ==
    \E kw \in INVESTIGATION_KEYWORDS :
        \E i \in 1..(Len(desc) - Len(kw) + 1) :
            LET j == i + Len(kw) - 1 IN
            /\ SubSeq(desc, i, j) = kw
            /\ (i = 1 \/ ~IsWordChar(CharAt(desc, i - 1)))
            /\ (j = Len(desc) \/ ~IsWordChar(CharAt(desc, j + 1)))

\* re.search(r"\b(fraud|inconsistent|staged)\b", desc, re.IGNORECASE)
KeywordSearch(desc) ==
    \E kw \in INVESTIGATION_KEYWORDS :
        \E i \in 1..(Len(desc) - Len(kw) + 1) :
            LET j == i + Len(kw) - 1 IN
            /\ Lower(SubSeq(desc, i, j)) = kw
            /\ (i = 1 \/ ~IsWordChar(CharAt(desc, i - 1)))
            /\ (j = Len(desc) \/ ~IsWordChar(CharAt(desc, j + 1)))

\* Python's `a or b` on two Optional[float]: a when a is truthy, else b
FloatOr(a, b) == IF ~IsNone(a) /\ Val(a) # 0 THEN a ELSE b

\* engine.py lines 33-37: the damage of get_missing_mandatory_fields
MissingDamage(e) ==
    LET d1 == IF ~IsNone(e.asset)
              THEN FloatOr(Val(e.asset).estimated_damage, Val(e.asset).initial_estimate)
              ELSE None
    IN  IF ~IsNone(e.initial_estimate) THEN e.initial_estimate ELSE d1

\* engine.py lines 80-84: the damage of compute_route
RouteDamage(e) ==
    LET d1 == IF ~IsNone(e.asset)
              THEN FloatOr(Val(e.asset).estimated_damage, Val(e.asset).initial_estimate)
              ELSE None
    IN  IF ~IsNone(e.initial_estimate) THEN e.initial_estimate ELSE d1

\* missing.append(name) when cond
AppendIf(missing, cond, name) == IF cond THEN Append(missing, name) ELSE missing

\* the location test with `and` in place of `or`
MissingLocation_Either(i) ==
    Strip(OrEmpty(i.location_street)) = "" \/ Strip(OrEmpty(i.location_city_state_zip)) = ""

MissingLocation(i) ==
    LET loc == IF Strip(OrEmpty(i.location_street)) # ""
               THEN Strip(OrEmpty(i.location_street))
               ELSE Strip(OrEmpty(i.location_city_state_zip))
    IN  loc = ""

get_missing_mandatory_fields(e) ==
    LET p  == e.policy
        i  == e.incident
        m1 == AppendIf(<<>>, ~PresentNonBlank(p.policy_number), "policy_number")
        m2 == AppendIf(m1, ~PresentNonBlank(p.policyholder_name), "policyholder_name")
        m3 == AppendIf(m2, IsNone(i.date), "incident_date")
        m4 == AppendIf(m3, MissingLocation(i), "incident_location")
        m5 == AppendIf(m4, ~PresentNonBlank(i.description), "incident_description")
        m6 == AppendIf(m5, ~PresentNonBlank(e.claim_type), "claim_type")
        m7 == AppendIf(m6, IsNone(MissingDamage(e)),
                       "initial_estimate_or_estimated_damage")
    IN  m7

\* `if not threshold:` in place of `if threshold is None:`
EffectiveThreshold_Falsy(threshold) ==
    IF IsNone(threshold) \/ Val(threshold) = 0
    THEN fast_track_damage_threshold
    ELSE Val(threshold)

\* engine.py lines 57-58
EffectiveThreshold(threshold) ==
    IF IsNone(threshold) THEN fast_track_damage_threshold ELSE Val(threshold)

\* the reasoning naming only the first missing field
ManualReviewReasoning_FirstOnly(missing) ==
    "Missing mandatory field(s): " \o missing[1] \o ". Cannot auto-route."

ManualReviewReasoning(missing) ==
    "Missing mandatory field(s): " \o Join(missing, ", ") \o ". Cannot auto-route."

\* the comparison without .strip().lower()
ClaimTypeIsInjury_Exact(e) == OrEmpty(e.claim_type) = "injury"

\* engine.py line 74
ClaimTypeIsInjury(e) == Lower(Strip(OrEmpty(e.claim_type))) = "injury"

FastTrackReasoning(damage, threshold) ==
    "Estimated damage (" \o FloatStr(damage) \o ") is below threshold ("
        \o FloatStr(threshold) \o "); eligible for fast-track."

compute_route(e, missing, threshold) ==
    LET thr    == EffectiveThreshold(threshold)
        desc   == Strip(OrEmpty(e.incident.description))
        damage == RouteDamage(e)
    IN  IF missing # <<>> THEN
            [route |-> "Manual review", reasoning |-> ManualReviewReasoning(missing)]
        ELSE IF KeywordSearch(desc) THEN
            [route |-> "Investigation Flag",
             reasoning |-> "Description contains terms suggesting possible fraud or inconsistency; flagged for investigation."]
        ELSE IF ClaimTypeIsInjury(e) THEN
            [route |-> "Specialist Queue",
             reasoning |-> "Claim type is injury; routed to specialist queue."]
        ELSE IF ~IsNone(damage) /\ Val(damage) < thr THEN
            [route |-> "Fast-track",
             reasoning |-> FastTrackReasoning(Val(damage), thr)]
        ELSE
            [route |-> "Standard",
             reasoning |-> "All mandatory fields present; no special flags; above fast-track threshold; routed to standard workflow."]

(***************************************************************************)
(* Python's re module, as far as parser.py uses it.                        *)
(*                                                                         *)
(* A pattern is a sequence of elements, matched by backtracking in the     *)
(* order re tries them:                                                    *)
(*   [t |-> "lit", s]                 a literal                            *)
(*   [t |-> "cls", c, min, max, lazy] a quantified character class         *)
(*                                    (max = -1: unbounded)                *)
(*   [t |-> "open"], [t |-> "close"]  the capturing group                  *)
(*   [t |-> "alt", alts]              (?:a|b|...), alts a sequence         *)
(*   [t |-> "star", sub, lazy]        (?:sub)* and (?:sub)*?               *)
(*   [t |-> "nla", alts]              (?!a|b|...)                          *)
(*   [t |-> "pla", alts]              (?=a|b|...)                          *)
(*   [t |-> "eos"]                    $                                    *)
(* A character class is [neg, set]. With re.IGNORECASE the pattern is      *)
(* written in lower case and matched against the lower-cased text; the     *)
(* captured positions are then read from the original text.                *)
(***************************************************************************)
Lit(s) == [t |-> "lit", s |-> s]

Cls(c, min, max) == [t |-> "cls", c |-> c, min |-> min, max |-> max, lazy |-> FALSE]

LazyCls(c, min, max) == [t |-> "cls", c |-> c, min |-> min, max |-> max, lazy |-> TRUE]

Open == [t |-> "open"]

Close == [t |-> "close"]

Alt(alts) == [t |-> "alt", alts |-> alts]

Star(sub) == [t |-> "star", sub |-> sub, lazy |-> FALSE]

LazyStar(sub) == [t |-> "star", sub |-> sub, lazy |-> TRUE]

NotAhead(alts) == [t |-> "nla", alts |-> alts]

Ahead(alts) == [t |-> "pla", alts |-> alts]

Eos == [t |-> "eos"]

In(set) == [neg |-> FALSE, set |-> set]

NotIn(set) == [neg |-> TRUE, set |-> set]

\* \s
SpaceChars == {" ", "\t", "\n", "\r", "\f"}

\* the number of leading characters of s[lo..hi] that are in cls, by halves
RECURSIVE RunIn(_, _, _, _)
RunIn(s, lo, hi, cls) ==
    IF lo > hi THEN 0
    ELSE IF lo = hi THEN (IF (CharAt(s, lo) \in cls.set) # cls.neg THEN 1 ELSE 0)
    ELSE LET mid == (lo + hi) \div 2
             left == RunIn(s, lo, mid, cls)
         IN  IF left < mid - lo + 1 THEN left
             ELSE left + RunIn(s, mid + 1, hi, cls)

NoMatch == <<>>

RECURSIVE Match(_, _, _, _)
RECURSIVE MatchCount(_, _, _, _, _, _, _)
RECURSIVE MatchAlts(_, _, _, _, _, _)

\* the first way, in re's order, to match els at pos: <<[end, cap]>> or NoMatch
Match(els, s, pos, cap) ==
    IF els = <<>> THEN <<[end |-> pos, cap |-> cap]>>
    ELSE LET e == Head(els)
             rest == Tail(els)
         IN  CASE e.t = "lit" ->
                    IF pos + Len(e.s) - 1 <= Len(s)
                         /\ SubSeq(s, pos, pos + Len(e.s) - 1) = e.s
                    THEN Match(rest, s, pos + Len(e.s), cap)
                    ELSE NoMatch
               [] e.t = "cls" ->
                    LET last == IF e.max < 0 \/ pos + e.max - 1 > Len(s)
                                THEN Len(s) ELSE pos + e.max - 1
                        run == RunIn(s, pos, last, e.c)
                    IN  IF run < e.min THEN NoMatch
                        ELSE MatchCount(rest, s, pos, cap, e.min, run, e.lazy)
               [] e.t = "open" -> Match(rest, s, pos, [cap EXCEPT !.from = pos])
               [] e.t = "close" -> Match(rest, s, pos, [cap EXCEPT !.to = pos - 1])
               [] e.t = "alt" -> MatchAlts(e.alts, 1, rest, s, pos, cap)
               [] e.t = "star" ->
                    LET more == Match(e.sub \o <<e>> \o rest, s, pos, cap)
                    IN  IF e.lazy
                        THEN LET none == Match(rest, s, pos, cap)
                             IN  IF none # NoMatch THEN none ELSE more
                        ELSE IF more # NoMatch THEN more ELSE Match(rest, s, pos, cap)
               [] e.t = "nla" ->
                    IF MatchAlts(e.alts, 1, <<>>, s, pos, cap) # NoMatch
                    THEN NoMatch
                    ELSE Match(rest, s, pos, cap)
               [] e.t = "pla" ->
                    IF MatchAlts(e.alts, 1, <<>>, s, pos, cap) = NoMatch
                    THEN NoMatch
                    ELSE Match(rest, s, pos, cap)
               [] e.t = "eos" ->
                    \* $ without re.MULTILINE: the end, or just before a
                    \* newline that ends s
                    IF pos = Len(s) + 1 \/ (pos = Len(s) /\ CharAt(s, pos) = "\n")
                    THEN Match(rest, s, pos, cap)
                    ELSE NoMatch

\* a quantified class taking between min and run characters: the most that
\* lets rest match, or the fewest when lazy
MatchCount(rest, s, pos, cap, min, run, lazy) ==
    LET first == IF lazy THEN min ELSE run
        r == Match(rest, s, pos + first, cap)
        ok == { n \in min..run : Match(rest, s, pos + n, cap) # NoMatch }
        best == IF lazy THEN CHOOSE n \in ok : \A k \in ok : n <= k
                ELSE CHOOSE n \in ok : \A k \in ok : n >= k
    IN  IF r # NoMatch THEN r
        ELSE IF ok = {} THEN NoMatch
        ELSE Match(rest, s, pos + best, cap)

\* the alternatives from the k-th on, each followed by rest
MatchAlts(alts, k, rest, s, pos, cap) ==
    IF k > Len(alts) THEN NoMatch
    ELSE LET r == Match(alts[k] \o rest, s, pos, cap)
         IN  IF r # NoMatch THEN r ELSE MatchAlts(alts, k + 1, rest, s, pos, cap)

NoCap == [from |-> 0, to |-> 0]

\* re.search(pattern, s): the match at the leftmost position that has one
Search(els, s) ==
    LET hits == { p \in 1..(Len(s) + 1) : Match(els, s, p, NoCap) # NoMatch }
    IN  IF hits = {} THEN NoMatch
        ELSE LET p == CHOOSE q \in hits : \A r \in hits : q <= r
             IN  Match(els, s, p, NoCap)

\* m.group(1) read from text
Group1(m, text) == SubSeq(text, Val(m).cap.from, Val(m).cap.to)

\* pattern.match(s) for a pattern that ends in $
FullMatch(els, s) == Match(els, s, 1, NoCap) # NoMatch

(***************************************************************************)
(* src/src/extraction/parser.py: helpers and the label classifier          *)
(***************************************************************************)
Opt(c) == Cls(In({c}), 0, 1)

\* \s+ and \s*
Sp1 == Cls(In(SpaceChars), 1, -1)

Sp0 == Cls(In(SpaceChars), 0, -1)

\* [:\s]*
ColonSp0 == Cls(In(SpaceChars \cup {":"}), 0, -1)

\* s[:n]
Prefix(s, n) == IF Len(s) > n THEN SubSeq(s, 1, n) ELSE s

CountChar(s, c) == Cardinality({ k \in 1..Len(s) : CharAt(s, k) = c })

\* re.sub(r"[^\d.]", "", s), computed by halves
RECURSIVE KeepDigitsAndDots(_)
KeepDigitsAndDots(s) ==
    IF Len(s) = 0 THEN ""
    ELSE IF Len(s) = 1 THEN (IF s \in Digits \cup {"."} THEN s ELSE "")
    ELSE LET h == Len(s) \div 2
         IN  KeepDigitsAndDots(SubSeq(s, 1, h)) \o KeepDigitsAndDots(SubSeq(s, h + 1, Len(s)))

DigitVal(c) ==
    CASE c = "0" -> 0 [] c = "1" -> 1 [] c = "2" -> 2 [] c = "3" -> 3
      [] c = "4" -> 4 [] c = "5" -> 5 [] c = "6" -> 6 [] c = "7" -> 7
      [] c = "8" -> 8 [] OTHER -> 9

\* int(s) for a string of digits
RECURSIVE StrToNat(_)
StrToNat(s) ==
    IF s = "" THEN 0
    ELSE 10 * StrToNat(SubSeq(s, 1, Len(s) - 1)) + DigitVal(CharAt(s, Len(s)))

\* _parse_float on a present string. float() raises on more than one period
\* and on no digit. An amount is held as its whole part: the documents
\* checked carry no fraction other than zeros.
_parse_float(s) ==
    LET t == KeepDigitsAndDots(s)
        dots == CountChar(t, ".")
        dot == IF dots = 0 THEN Len(t) + 1
               ELSE CHOOSE k \in 1..Len(t) : CharAt(t, k) = "."
    IN  IF t = "" THEN None
        ELSE IF dots > 1 \/ Len(t) = dots THEN None
        ELSE Some(StrToNat(SubSeq(t, 1, dot - 1)))

\* day count of a month, for datetime's range check
DaysInMonth(y, m) ==
    IF m \in {4, 6, 9, 11} THEN 30
    ELSE IF m = 2 THEN (IF (y % 4 = 0 /\ y % 100 # 0) \/ y % 400 = 0 THEN 29 ELSE 28)
    ELSE 31

\* "%m/%d/%Y", "%Y-%m-%d", "%d/%m/%Y", "%m-%d-%Y" (%m and %d take one or two
\* digits, %Y four)
DateFormats ==
    << [w |-> <<<<1, 2>>, <<1, 2>>, <<4, 4>>>>, sep |-> "/", yi |-> 3, mi |-> 1, di |-> 2],
       [w |-> <<<<4, 4>>, <<1, 2>>, <<1, 2>>>>, sep |-> "-", yi |-> 1, mi |-> 2, di |-> 3],
       [w |-> <<<<1, 2>>, <<1, 2>>, <<4, 4>>>>, sep |-> "/", yi |-> 3, mi |-> 2, di |-> 1],
       [w |-> <<<<1, 2>>, <<1, 2>>, <<4, 4>>>>, sep |-> "-", yi |-> 3, mi |-> 1, di |-> 2] >>

\* the k-th part of s under format f, or NoMatch when s is not of that shape
DatePart(f, s, k) ==
    LET part(j) == IF j = k
                   THEN <<Open, Cls(In(Digits), f.w[j][1], f.w[j][2]), Close>>
                   ELSE <<Cls(In(Digits), f.w[j][1], f.w[j][2])>>
        els == part(1) \o <<Lit(f.sep)>> \o part(2) \o <<Lit(f.sep)>> \o part(3)
        m == Match(els, s, 1, NoCap)
    IN  IF m # NoMatch /\ Val(m).end = Len(s) + 1
        THEN Some(StrToNat(Group1(m, s)))
        ELSE None

\* datetime.strptime(s, fmt).date(), None for a ValueError
ParseWithFormat(f, s) ==
    LET y == DatePart(f, s, f.yi)
        m == DatePart(f, s, f.mi)
        d == DatePart(f, s, f.di)
    IN  IF IsNone(y) THEN None
        ELSE IF Val(y) >= 1 /\ Val(m) \in 1..12 /\ Val(d) \in 1..DaysInMonth(Val(y), Val(m))
        THEN Some([year |-> Val(y), month |-> Val(m), day |-> Val(d)])
        ELSE None

RECURSIVE ParseFirstFormat(_, _)
ParseFirstFormat(s, k) ==
    IF k > Len(DateFormats) THEN None
    ELSE LET r == ParseWithFormat(DateFormats[k], s)
         IN  IF ~IsNone(r) THEN r ELSE ParseFirstFormat(s, k + 1)

\* _parse_date on a present string
_parse_date(s) ==
    IF s = "" \/ Strip(s) = "" THEN None
    ELSE ParseFirstFormat(Prefix(Strip(s), 10), 1)

\* _LABEL_PATTERNS: ^(...)$ with re.IGNORECASE, alternatives in source order
_LABEL_PATTERNS ==
    << Alt(<< <<Lit("other")>>,
              <<Lit("street:")>>,
              <<Lit("city"), Opt(","), Sp0, Lit("state"), Opt(","), Sp0, Lit("zip"), Opt(":")>>,
              <<Lit("name"), Sp1, Lit("of"), Sp1, Lit("insured")>>,
              <<Lit("insured's"), Sp1, Lit("mailing")>>,
              <<Lit("primary"), Sp1, Lit("phone")>>,
              <<Lit("secondary"), Sp1, Lit("e-mail")>>,
              <<Lit("primary"), Sp1, Lit("e-mail")>>,
              <<Lit("driver's"), Sp1, Lit("name")>>,
              <<Lit("owner's"), Sp1, Lit("name")>>,
              <<Lit("check"), Sp1, Lit("if"), Sp1, Lit("same")>>,
              <<Lit("phone"), Sp0, Lit("#")>>,
              <<Lit("cell")>>,
              <<Lit("home")>>,
              <<Lit("bus")>>,
              <<Lit("loss"), Sp0, Eos>>,
              <<Lit("acord"), Sp1, Lit("101")>>,
              <<Lit("additional"), Sp1, Lit("remarks")>>,
              <<Lit("insured"), Sp1, Lit("vehicle")>>,
              <<Lit("secondary")>>,
              <<Lit("primary")>>,
              <<Lit("number")>>,
              <<Lit("vehicle")>> >>),
       Eos >>

_LABEL_SUBSTRINGS ==
    { "same as owner", "same as insured", "mailing address", "additional remarks",
      "may be attached", "if more space", "check if same", "phone #", "e-mail address",
      "if not at specific", "street address", "(first, middle, last)",
      "first, middle, last" }

\* _is_form_label_or_placeholder on a present string: TRUE means rejected
_is_form_label_or_placeholder(value, max_reasonable_len) ==
    LET s == Strip(value)
        lower == Lower(s)
    IN  \/ value = "" \/ s = ""
        \/ s = ":" \/ FullMatch(<<Cls(In(SpaceChars \cup {".", ":", "-"}), 1, -1), Eos>>, s)
        \/ (Len(s) > max_reasonable_len /\ Contains(s, "\n") /\ CountChar(s, "\n") > 2)
        \/ FullMatch(_LABEL_PATTERNS, lower)
        \/ \E sub \in _LABEL_SUBSTRINGS : Contains(lower, sub)
        \/ lower \in {"number", "name", "date", "address", "other"}
        \/ lower \in {"other", "y", "n"}

(***************************************************************************)
(* src/src/extraction/parser.py: the patterns of _extract_from_raw_text.   *)
(* A pattern compiled with re.IGNORECASE is written in lower case and      *)
(* searched in text.lower(); the patterns the source searches in `lower`   *)
(* are written as they are. No pattern has a `.`, so re.DOTALL is moot.    *)
(***************************************************************************)
Capture(c, min, max) == <<Open, Cls(c, min, max), Close>>

\* POLICY\s*NUMBER[:\s]*([A-Za-z0-9\-]+)
P_POLICY_FORM ==
    <<Lit("policy"), Sp0, Lit("number"), ColonSp0>> \o Capture(In(UpperLetters \cup LowerLetters \cup Digits \cup {"-"}), 1, -1)

\* NAIC\s*CODE[:\s]*\S+\s*CARRIER[:\s]*\S+\s*POLICY\s*NUMBER[:\s]*([^\s\n]+)
P_POLICY_NAIC ==
    <<Lit("naic"), Sp0, Lit("code"), ColonSp0, Cls(NotIn(SpaceChars), 1, -1), Sp0,
      Lit("carrier"), ColonSp0, Cls(NotIn(SpaceChars), 1, -1), Sp0,
      Lit("policy"), Sp0, Lit("number"), ColonSp0>> \o Capture(NotIn(SpaceChars), 1, -1)

\* (?:policy\s*#?|policy\s*number)\s*[:\s]*([A-Za-z0-9\-]+)
P_POLICY_GENERIC ==
    <<Alt(<< <<Lit("policy"), Sp0, Opt("#")>>, <<Lit("policy"), Sp0, Lit("number")>> >>),
      Sp0, ColonSp0>> \o Capture(In(UpperLetters \cup LowerLetters \cup Digits \cup {"-"}), 1, -1)

\* NAME\s+OF\s+INSURED\s*\([^)]*\)\s*([^\n]+)
P_INSURED_FORM ==
    <<Lit("name"), Sp1, Lit("of"), Sp1, Lit("insured"), Sp0, Lit("("),
      Cls(NotIn({")"}), 0, -1), Lit(")"), Sp0>> \o Capture(NotIn({"\n"}), 1, -1)

\* (?:insured|policyholder)\s*(?:name)?\s*[:\s]*([^\n]+)
P_INSURED_GENERIC ==
    <<Alt(<< <<Lit("insured")>>, <<Lit("policyholder")>> >>), Sp0,
      Alt(<< <<Lit("name")>>, <<>> >>), Sp0, ColonSp0>> \o Capture(NotIn({"\n"}), 1, -1)

\* DATE\s+OF\s+LOSS\s+AND\s+TIME\s*([^\n]+)
P_DATE_TIME_LINE ==
    <<Lit("date"), Sp1, Lit("of"), Sp1, Lit("loss"), Sp1, Lit("and"), Sp1,
      Lit("time"), Sp0>> \o Capture(NotIn({"\n"}), 1, -1)

\* (\d{1,2}/\d{1,2}/\d{2,4})
P_DATE_TOKEN ==
    <<Open, Cls(In(Digits), 1, 2), Lit("/"), Cls(In(Digits), 1, 2), Lit("/"), Cls(In(Digits), 2, 4), Close>>

\* (\d{1,2}\s*:\s*\d{2}\s*(?:AM|PM)?|\d{1,2}\s*AM|\d{1,2}\s*PM)
P_TIME_TOKEN ==
    <<Open,
      Alt(<< <<Cls(In(Digits), 1, 2), Sp0, Lit(":"), Sp0, Cls(In(Digits), 2, 2), Sp0,
               Alt(<< <<Lit("am")>>, <<Lit("pm")>>, <<>> >>)>>,
             <<Cls(In(Digits), 1, 2), Sp0, Lit("am")>>,
             <<Cls(In(Digits), 1, 2), Sp0, Lit("pm")>> >>),
      Close>>

\* (?:loss\s+date|date\s+of\s+loss|incident\s+date)\s*[:\s]*(\d{1,2}[/\-]\d{1,2}[/\-]\d{2,4})
P_DATE_GENERIC ==
    <<Alt(<< <<Lit("loss"), Sp1, Lit("date")>>,
             <<Lit("date"), Sp1, Lit("of"), Sp1, Lit("loss")>>,
             <<Lit("incident"), Sp1, Lit("date")>> >>),
      Sp0, ColonSp0, Open, Cls(In(Digits), 1, 2), Cls(In({"/", "-"}), 1, 1), Cls(In(Digits), 1, 2),
      Cls(In({"/", "-"}), 1, 1), Cls(In(Digits), 2, 4), Close>>

\* LOCATION\s+OF\s+LOSS\s*(?:STREET[:\s]*)?([^\n]+?)(?:\s*CITY|$)
P_LOCATION_STREET ==
    <<Lit("location"), Sp1, Lit("of"), Sp1, Lit("loss"), Sp0,
      Alt(<< <<Lit("street"), ColonSp0>>, <<>> >>),
      Open, LazyCls(NotIn({"\n"}), 1, -1), Close,
      Alt(<< <<Sp0, Lit("city")>>, <<Eos>> >>)>>

\* CITY,?\s*STATE,?\s*ZIP[:\s]*([^\n]+)
P_CITY_STATE_ZIP ==
    <<Lit("city"), Opt(","), Sp0, Lit("state"), Opt(","), Sp0, Lit("zip"), ColonSp0>>
        \o Capture(NotIn({"\n"}), 1, -1)

\* COUNTRY[:\s]*([^\n]+)
P_COUNTRY == <<Lit("country"), ColonSp0>> \o Capture(NotIn({"\n"}), 1, -1)

\* DESCRIPTION\s+OF\s+ACCIDENT\s*([^\n]+(?:\n(?!POLICY|INSURED|LOCATION|DATE)[^\n]+)*)
P_DESCRIPTION_FORM ==
    <<Lit("description"), Sp1, Lit("of"), Sp1, Lit("accident"), Sp0,
      Open, Cls(NotIn({"\n"}), 1, -1),
      Star(<<Lit("\n"),
             NotAhead(<< <<Lit("policy")>>, <<Lit("insured")>>, <<Lit("location")>>,
                         <<Lit("date")>> >>),
             Cls(NotIn({"\n"}), 1, -1)>>),
      Close>>

\* (?:description\s+of\s+(?:loss|accident)|accident\s+description)\s*[:\s]*
\* ([^\n]+(?:\n[^\n]+)*?)(?=\n[A-Z\s]{3,}:|\n\n|$)
P_DESCRIPTION_GENERIC ==
    <<Alt(<< <<Lit("description"), Sp1, Lit("of"), Sp1,
               Alt(<< <<Lit("loss")>>, <<Lit("accident")>> >>)>>,
             <<Lit("accident"), Sp1, Lit("description")>> >>),
      Sp0, ColonSp0,
      Open, Cls(NotIn({"\n"}), 1, -1), LazyStar(<<Lit("\n"), Cls(NotIn({"\n"}), 1, -1)>>), Close,
      Ahead(<< <<Lit("\n"), Cls(In(UpperLetters \cup SpaceChars), 3, -1), Lit(":")>>, <<Lit("\n\n")>>, <<Eos>> >>)>>

\* Description(?:\s+of\s+(?:loss|accident))?\s*[:\s]*([^\n]+(?:\n[^\n]+)*)
P_DESCRIPTION_ANY ==
    <<Lit("description"),
      Alt(<< <<Sp1, Lit("of"), Sp1, Alt(<< <<Lit("loss")>>, <<Lit("accident")>> >>)>>, <<>> >>),
      Sp0, ColonSp0,
      Open, Cls(NotIn({"\n"}), 1, -1), Star(<<Lit("\n"), Cls(NotIn({"\n"}), 1, -1)>>), Close>>

\* Location(?:\s+of\s+loss)?\s*[:\s]*([^\n]+)
P_LOCATION_GENERIC ==
    <<Lit("location"), Alt(<< <<Sp1, Lit("of"), Sp1, Lit("loss")>>, <<>> >>), Sp0, ColonSp0>>
        \o Capture(NotIn({"\n"}), 1, -1)

\* DRIVER'S\s+NAME\s+AND\s+ADDRESS\s*([^\n]+)
P_DRIVER ==
    <<Lit("driver's"), Sp1, Lit("name"), Sp1, Lit("and"), Sp1, Lit("address"), Sp0>>
        \o Capture(NotIn({"\n"}), 1, -1)

\* OWNER'S\s+NAME\s+AND\s+ADDRESS\s*([^\n]+)
P_OWNER ==
    <<Lit("owner's"), Sp1, Lit("name"), Sp1, Lit("and"), Sp1, Lit("address"), Sp0>>
        \o Capture(NotIn({"\n"}), 1, -1)

\* PRIMARY\s+PHONE\s*#\s*[:\s]*([^\n]+)
P_PHONE ==
    <<Lit("primary"), Sp1, Lit("phone"), Sp0, Lit("#"), Sp0, ColonSp0>>
        \o Capture(NotIn({"\n"}), 1, -1)

\* PRIMARY\s+E-MAIL\s*[:\s]*([^\s\n@]+@[^\s\n]+)
P_EMAIL ==
    <<Lit("primary"), Sp1, Lit("e-mail"), Sp0, ColonSp0,
      Open, Cls(NotIn(SpaceChars \cup {"@"}), 1, -1), Lit("@"), Cls(NotIn(SpaceChars), 1, -1), Close>>

\* V\.?I\.?N\.?[:\s]*([A-HJ-NPR-Z0-9]{17})
P_VIN ==
    <<Lit("v"), Opt("."), Lit("i"), Opt("."), Lit("n"), Opt("."), ColonSp0>>
        \o Capture(In((LowerLetters \ {"i", "o", "q"}) \cup Digits), 17, 17)

\* MAKE[:\s]*([^\n\t]+?)(?:\s+YEAR|\s+MODEL|$)
P_MAKE ==
    <<Lit("make"), ColonSp0, Open, LazyCls(NotIn({"\n", "\t"}), 1, -1), Close,
      Alt(<< <<Sp1, Lit("year")>>, <<Sp1, Lit("model")>>, <<Eos>> >>)>>

\* MODEL[:\s]*([^\n\t]+?)(?:\s+BODY|\s+TYPE|$)
P_MODEL ==
    <<Lit("model"), ColonSp0, Open, LazyCls(NotIn({"\n", "\t"}), 1, -1), Close,
      Alt(<< <<Sp1, Lit("body")>>, <<Sp1, Lit("type")>>, <<Eos>> >>)>>

\* YEAR[:\s]*(\d{4})
P_YEAR == <<Lit("year"), ColonSp0>> \o Capture(In(Digits), 4, 4)

\* ESTIMATE\s+AMOUNT[:\s]*([^\n]+)
P_ESTIMATE_AMOUNT ==
    <<Lit("estimate"), Sp1, Lit("amount"), ColonSp0>> \o Capture(NotIn({"\n"}), 1, -1)

\* (?:Estimate|initial\s+estimate)\s*[:\s]*([^\n]+)
P_ESTIMATE_GENERIC ==
    <<Alt(<< <<Lit("estimate")>>, <<Lit("initial"), Sp1, Lit("estimate")>> >>),
      Sp0, ColonSp0>> \o Capture(NotIn({"\n"}), 1, -1)

(***************************************************************************)
(* src/src/extraction/parser.py: _extract_from_raw_text                    *)
(***************************************************************************)
\* truth value of `not x` for an Optional[str]
FalsyStr(o) == IsNone(o) \/ Val(o) = ""

\* the default of max_reasonable_len
DefaultMaxLen == 200

\* val = m.group(1).strip()[:cut]; the value when m matched and the
\* classifier accepts it, else None. src is the string that was searched.
Candidate(m, src, cut, max_reasonable_len) ==
    IF m = NoMatch THEN None
    ELSE LET val == Prefix(Strip(Group1(m, src)), cut)
         IN  IF ~_is_form_label_or_placeholder(val, max_reasonable_len)
             THEN Some(val) ELSE None

\* make_val / model_val of lines 237-242: the classifier runs only on a
\* non-empty capture
AssetText(m, text) ==
    IF m = NoMatch THEN None
    ELSE LET val == Strip(Group1(m, text))
         IN  IF val # "" /\ _is_form_label_or_placeholder(val, 50) THEN None
             ELSE Some(val)

\* the set holding the value of an Optional[str], empty for None
ValueSet(o) == IF IsNone(o) THEN {} ELSE {Val(o)}

\* lines 258-264 with injury looked for in the whole document
ClaimTypeOf_WholeDocument(description, lower, full) ==
    IF Contains(lower, "injury") \/ Contains(lower, "injured")
    THEN "injury"
    ELSE IF \/ Contains(lower, "vehicle") \/ Contains(lower, "automobile")
            \/ Contains(lower, "auto") \/ Contains(full, "ACORD")
    THEN "auto"
    ELSE "property"

\* claim_type of lines 258-264, from incident.description, text.lower()
\* and text.upper()
ClaimTypeOf(description, lower, full) ==
    LET desc_for_type == Lower(OrEmpty(description))
    IN  IF desc_for_type # ""
           /\ (Contains(desc_for_type, "injury") \/ Contains(desc_for_type, "injured"))
        THEN "injury"
        ELSE IF \/ Contains(lower, "vehicle") \/ Contains(lower, "automobile")
                \/ Contains(lower, "auto") \/ Contains(full, "ACORD")
        THEN "auto"
        ELSE "property"

\* m.group(1) of a match object that may be None
GroupOf(m, src) == IF m = NoMatch THEN None ELSE Some(Group1(m, src))

\* lines 144-152: date and time read from the DATE OF LOSS AND TIME line
DateTimeLine(m, text) ==
    LET part == Group1(m, text)
        d == GroupOf(Search(P_DATE_TOKEN, part), part)
        t == GroupOf(Search(P_TIME_TOKEN, Lower(part)), part)
    IN  [ date |-> IF m # NoMatch /\ ~IsNone(d) THEN _parse_date(Val(d)) ELSE None,
          time |-> IF m # NoMatch /\ ~IsNone(t) THEN Some(Strip(Val(t))) ELSE None ]

\* lines 233-235, 249-250: _parse_float(est.group(1)) if est else None
EstimateOf(est_amount, est_generic, text) ==
    IF est_amount # NoMatch THEN _parse_float(Group1(est_amount, text))
    ELSE IF est_generic # NoMatch THEN _parse_float(Group1(est_generic, text))
    ELSE None

\* the owner's box read before the driver's
ClaimantName_OwnerFirst(driver, owner, policyholder_name) ==
    IF ~IsNone(owner) THEN owner
    ELSE IF ~IsNone(driver) THEN driver
    ELSE IF ~FalsyStr(policyholder_name) THEN policyholder_name
    ELSE None

\* lines 204-216: the name of the claimant, None when there is no claimant;
\* driver and owner are the accepted captures of the two boxes
ClaimantName(driver, owner, policyholder_name) ==
    IF ~IsNone(driver) THEN driver
    ELSE IF ~IsNone(owner) THEN owner
    ELSE IF ~FalsyStr(policyholder_name) THEN policyholder_name
    ELSE None

\* the top-level value read with `or`, which takes 0.0 for absent
TopLevelEstimate_Truthy(asset) ==
    IF IsNone(asset) THEN None
    ELSE FloatOr(Val(asset).initial_estimate, None)

\* lines 252-255 and 279: initial_estimate of the returned record. Line 254
\* copies estimated_damage into an absent asset.initial_estimate; the value
\* returned is asset.initial_estimate, and None without an asset.
TopLevelEstimate(asset) ==
    IF IsNone(asset) THEN None
    ELSE IF IsNone(Val(asset).initial_estimate)
    THEN Val(asset).estimated_damage
    ELSE Val(asset).initial_estimate

\* Every re.search of _extract_from_raw_text on `text`, with what the
\* statements that follow it make of the match: the candidate the classifier
\* accepted (Candidate, AssetText), the parsed value, or the match itself.
\* Which of them the function goes on to use is decided in StoreFields.
Searches(text, lower) ==
    [ pn_form |-> Candidate(Search(P_POLICY_FORM, lower), text, Len(text), 50),
      pn_naic |-> Candidate(Search(P_POLICY_NAIC, lower), text, Len(text), 50),
      pn_generic |-> Candidate(Search(P_POLICY_GENERIC, lower), lower, Len(lower), 50),
      ph_form |-> Candidate(Search(P_INSURED_FORM, lower), text, 200, DefaultMaxLen),
      ph_generic |-> Candidate(Search(P_INSURED_GENERIC, lower), lower, 200, DefaultMaxLen),
      line |-> DateTimeLine(Search(P_DATE_TIME_LINE, lower), text),
      date_generic |-> GroupOf(Search(P_DATE_GENERIC, lower), lower),
      street_form |-> Candidate(Search(P_LOCATION_STREET, lower), text, 300, DefaultMaxLen),
      city_state_zip |-> Candidate(Search(P_CITY_STATE_ZIP, lower), text, Len(text), 100),
      country |-> Candidate(Search(P_COUNTRY, lower), text, Len(text), 80),
      desc_form |-> Candidate(Search(P_DESCRIPTION_FORM, lower), text, 2000, 2000),
      desc_generic |-> Candidate(Search(P_DESCRIPTION_GENERIC, lower), lower, 2000, 2000),
      desc_any |-> Candidate(Search(P_DESCRIPTION_ANY, lower), text, 2000, 2000),
      street_generic |->
          Candidate(Search(P_LOCATION_GENERIC, lower), text, 300, DefaultMaxLen),
      driver |-> Candidate(Search(P_DRIVER, lower), text, Len(text), DefaultMaxLen),
      owner |-> Candidate(Search(P_OWNER, lower), text, Len(text), DefaultMaxLen),
      phone |-> Candidate(Search(P_PHONE, lower), text, 50, 30),
      email |-> GroupOf(Search(P_EMAIL, lower), text),
      vin |-> GroupOf(Search(P_VIN, lower), text),
      make |-> Search(P_MAKE, lower) # NoMatch,
      make_val |-> AssetText(Search(P_MAKE, lower), text),
      model |-> Search(P_MODEL, lower) # NoMatch,
      model_val |-> AssetText(Search(P_MODEL, lower), text),
      year |-> GroupOf(Search(P_YEAR, lower), text),
      est |-> Search(P_ESTIMATE_AMOUNT, lower) # NoMatch
                \/ Search(P_ESTIMATE_GENERIC, lower) # NoMatch,
      amount |-> EstimateOf(Search(P_ESTIMATE_AMOUNT, lower),
                            Search(P_ESTIMATE_GENERIC, lower), text) ]

\* The statements of _extract_from_raw_text in order, on the searches c.
\* `result` is the returned record; `accepted` is the set of strings on which
\* _is_form_label_or_placeholder was called during the run and returned False.
StoreFields(lower, full, c) ==
    LET \* --- Policy --- (lines 113-128): the loop has no break, so the
        \* second pattern overwrites the first
        pn_loop == IF ~IsNone(c.pn_naic) THEN c.pn_naic ELSE c.pn_form
        policy_number ==
            IF FalsyStr(pn_loop) /\ ~IsNone(c.pn_generic) THEN c.pn_generic ELSE pn_loop
        \* policyholder (lines 131-141)
        policyholder_name ==
            IF FalsyStr(c.ph_form) /\ ~IsNone(c.ph_generic) THEN c.ph_generic
            ELSE c.ph_form
        \* --- Incident --- (lines 144-157)
        date == IF IsNone(c.line.date) /\ ~IsNone(c.date_generic)
                THEN _parse_date(Val(c.date_generic)) ELSE c.line.date
        \* description (lines 177-193)
        desc_two == IF FalsyStr(c.desc_form) /\ ~IsNone(c.desc_generic)
                    THEN c.desc_generic ELSE c.desc_form
        description == IF FalsyStr(desc_two) /\ ~IsNone(c.desc_any)
                       THEN c.desc_any ELSE desc_two
        \* location fallback (lines 196-201)
        no_location == FalsyStr(c.street_form) /\ FalsyStr(c.city_state_zip)
        location_street == IF no_location /\ ~IsNone(c.street_generic)
                           THEN c.street_generic ELSE c.street_form
        \* --- Claimant --- (lines 204-226)
        claimant_name == ClaimantName(c.driver, c.owner, policyholder_name)
        has_claimant == ~IsNone(claimant_name)
        phone == IF has_claimant THEN c.phone ELSE None
        email == IF has_claimant /\ ~IsNone(c.email)
                 THEN Some(Strip(Val(c.email))) ELSE None
        claimant ==
            IF has_claimant
            THEN Some([name |-> claimant_name, address |-> None, phone |-> phone,
                       email |-> email, relation_to_insured |-> None])
            ELSE None
        \* --- Asset --- (lines 229-255)
        has_asset == ~IsNone(c.vin) \/ c.make \/ c.model \/ ~IsNone(c.year) \/ c.est
        asset ==
            IF has_asset
            THEN Some([asset_type |-> Some("vehicle"),
                       asset_id |-> IF ~IsNone(c.vin)
                                    THEN Some(Strip(Val(c.vin))) ELSE None,
                       make |-> c.make_val,
                       model |-> c.model_val,
                       year |-> IF ~IsNone(c.year)
                                THEN Some(StrToNat(Val(c.year))) ELSE None,
                       estimated_damage |-> c.amount,
                       initial_estimate |-> c.amount])
            ELSE None
        \* attachments (lines 267-268)
        attachments ==
            IF Contains(lower, "attachment") \/ Contains(lower, "attached")
            THEN <<"document_attached">> ELSE <<>>
    IN  [ result |->
            [ policy |-> [policy_number |-> policy_number,
                          policyholder_name |-> policyholder_name,
                          effective_date_start |-> None,
                          effective_date_end |-> None],
              incident |-> [date |-> date, time |-> c.line.time,
                            location_street |-> location_street,
                            location_city_state_zip |-> c.city_state_zip,
                            location_country |-> c.country,
                            description |-> description],
              claimant |-> claimant,
              third_parties |-> <<>>,
              contact_details |-> claimant,
              asset |-> asset,
              claim_type |-> Some(ClaimTypeOf(description, lower, full)),
              attachments |-> attachments,
              initial_estimate |-> TopLevelEstimate(asset) ],
          accepted |->
            ValueSet(c.pn_form) \cup ValueSet(c.pn_naic)
              \cup (IF FalsyStr(pn_loop) THEN ValueSet(c.pn_generic) ELSE {})
              \cup ValueSet(c.ph_form)
              \cup (IF FalsyStr(c.ph_form) THEN ValueSet(c.ph_generic) ELSE {})
              \cup ValueSet(c.street_form) \cup ValueSet(c.city_state_zip)
              \cup ValueSet(c.country)
              \cup ValueSet(c.desc_form)
              \cup (IF FalsyStr(c.desc_form) THEN ValueSet(c.desc_generic) ELSE {})
              \cup (IF FalsyStr(desc_two) THEN ValueSet(c.desc_any) ELSE {})
              \cup (IF no_location THEN ValueSet(c.street_generic) ELSE {})
              \cup ValueSet(c.driver)
              \cup (IF IsNone(c.driver) THEN ValueSet(c.owner) ELSE {})
              \cup ValueSet(phone)
              \cup (IF has_asset
                    THEN (ValueSet(c.make_val) \cup ValueSet(c.model_val)) \ {""}
                    ELSE {}) ]

\* one run of _extract_from_raw_text
ExtractionRun(text) == StoreFields(Lower(text), Upper(text), Searches(text, Lower(text)))

_extract_from_raw_text(text) == ExtractionRun(text).result

\* "\n".join(page.get_text() for page in doc)
_extract_text_from_pdf(pages) == Join(pages, "\n")

extract_from_pdf(pages) == _extract_from_raw_text(_extract_text_from_pdf(pages))

extract_from_text(content) == _extract_from_raw_text(content)

(***************************************************************************)
(* src/src/schemas.py: to_flat_dict. A dict is the sequence of its         *)
(* <<key, value>> pairs in insertion order.                                *)
(***************************************************************************)
\* n as decimal digits, zero-padded on the left to `width`
RECURSIVE ZeroPad(_, _)
ZeroPad(n, width) ==
    IF width <= 1 THEN NatStr(n)
    ELSE IF Len(NatStr(n)) >= width THEN NatStr(n)
    ELSE "0" \o ZeroPad(n, width - 1)

\* date.isoformat(): YYYY-MM-DD
isoformat(d) == ZeroPad(d.year, 4) \o "-" \o ZeroPad(d.month, 2) \o "-" \o ZeroPad(d.day, 2)

\* one item of model_dump(exclude_none=True) under its prefixed key
DumpItem(key, o) == IF IsNone(o) THEN <<>> ELSE << <<key, Val(o)>> >>

\* the same for a date field, after _json_serial
DumpDate(key, o) == IF IsNone(o) THEN <<>> ELSE << <<key, isoformat(Val(o))>> >>

\* a party dumped by its name alone
DumpParty_NameOnly(prefix, p) == DumpItem(prefix \o "name", p.name)

\* the items of an InvolvedParty under `prefix`
DumpParty(prefix, p) ==
    DumpItem(prefix \o "name", p.name) \o DumpItem(prefix \o "address", p.address)
      \o DumpItem(prefix \o "phone", p.phone) \o DumpItem(prefix \o "email", p.email)
      \o DumpItem(prefix \o "relation_to_insured", p.relation_to_insured)

\* the items of third_parties[i..], keyed third_party_{index from 0}_
RECURSIVE DumpThirdParties(_, _)
DumpThirdParties(parties, i) ==
    IF i > Len(parties) THEN <<>>
    ELSE DumpParty("third_party_" \o NatStr(i - 1) \o "_", parties[i])
           \o DumpThirdParties(parties, i + 1)

to_flat_dict(e) ==
    DumpItem("policy_policy_number", e.policy.policy_number)
      \o DumpItem("policy_policyholder_name", e.policy.policyholder_name)
      \o DumpDate("policy_effective_date_start", e.policy.effective_date_start)
      \o DumpDate("policy_effective_date_end", e.policy.effective_date_end)
      \o DumpDate("incident_date", e.incident.date)
      \o DumpItem("incident_time", e.incident.time)
      \o DumpItem("incident_location_street", e.incident.location_street)
      \o DumpItem("incident_location_city_state_zip", e.incident.location_city_state_zip)
      \o DumpItem("incident_location_country", e.incident.location_country)
      \o DumpItem("incident_description", e.incident.description)
      \o (IF IsNone(e.claimant) THEN <<>> ELSE DumpParty("claimant_", Val(e.claimant)))
      \o DumpThirdParties(e.third_parties, 1)
      \o (IF IsNone(e.contact_details) THEN <<>>
          ELSE DumpParty("contact_", Val(e.contact_details)))
      \o (IF IsNone(e.asset) THEN <<>>
          ELSE LET a == Val(e.asset)
               IN  DumpItem("asset_asset_type", a.asset_type)
                     \o DumpItem("asset_asset_id", a.asset_id)
                     \o DumpItem("asset_make", a.make)
                     \o DumpItem("asset_model", a.model)
                     \o DumpItem("asset_year", a.year)
                     \o DumpItem("asset_estimated_damage", a.estimated_damage)
                     \o DumpItem("asset_initial_estimate", a.initial_estimate))
      \o DumpItem("claim_type", e.claim_type)
      \o (IF e.attachments # <<>> THEN << <<"attachments", e.attachments>> >> ELSE <<>>)
      \o DumpItem("initial_estimate", e.initial_estimate)

(***************************************************************************)
(* src/src/main.py: process_extracted                                      *)
(***************************************************************************)
\* the route computed without the missing list
process_extracted_Unchecked(e) ==
    LET missing == get_missing_mandatory_fields(e)
        routed == compute_route(e, <<>>, None)
    IN  [ extractedFields |-> to_flat_dict(e),
          missingFields |-> missing,
          recommendedRoute |-> routed.route,
          reasoning |-> routed.reasoning ]

process_extracted(e) ==
    LET missing == get_missing_mandatory_fields(e)
        routed == compute_route(e, missing, None)
    IN  [ extractedFields |-> to_flat_dict(e),
          missingFields |-> missing,
          recommendedRoute |-> routed.route,
          reasoning |-> routed.reasoning ]

(***************************************************************************)
(* Routing: the records, arguments and calls that are checked              *)
(***************************************************************************)
AssetOf(est, ini) == Some([estimated_damage |-> est, initial_estimate |-> ini])

\* records that differ in which mandatory data are absent, blank or present
MandatoryFamily ==
    { [policy |-> [policy_number |-> pn, policyholder_name |-> ph],
       incident |-> [date |-> d, location_street |-> st,
                     location_city_state_zip |-> csz, description |-> desc],
       claim_type |-> ct, asset |-> dm.asset, initial_estimate |-> dm.top] :
        pn \in {None, Some(" "), Some("P1")},
        ph \in {None, Some(""), Some("John")},
        d \in {None, Some("2024-01-15")},
        st \in {None, Some(" \t"), Some("123 Main St")},
        csz \in {None, Some(" "), Some("Austin TX")},
        desc \in {None, Some(" \n"), Some("Hit")},
        ct \in {None, Some(" "), Some("auto")},
        dm \in { [asset |-> None, top |-> None],
                 [asset |-> AssetOf(Some(10000), Some(10000)), top |-> Some(10000)] } }

\* records that differ in what the routing rules read
RoutingFamily ==
    { [policy |-> [policy_number |-> Some("P1"), policyholder_name |-> Some("John")],
       incident |-> [date |-> Some("2024-01-15"), location_street |-> Some("123 Main St"),
                     location_city_state_zip |-> None, description |-> desc],
       claim_type |-> ct, asset |-> a, initial_estimate |-> top] :
        desc \in { None, Some("Hit"),
                   Some("The incident appears staged and the account is inconsistent. Possible fraud."),
                   Some("Possible FRAUD."), Some(" Staged\n"), Some("anti-fraud unit"),
                   Some("fraudulent claim"), Some("fraud_ring"),
                   Some("Collision with injury.") },
        ct \in { None, Some("auto"), Some("property"), Some("injury"), Some(" Injury "),
                 Some("INJURY\n"), Some("injured") },
        a \in {None} \cup { AssetOf(est, ini) : est \in {None, Some(0), Some(10000)},
                                               ini \in {None, Some(0), Some(25000)} },
        top \in {None, Some(0), Some(50000)} }

RouteRecords == MandatoryFamily \cup RoutingFamily

MissingArgs ==
    { <<>>, <<"policy_number">>,
      <<"incident_date", "claim_type", "initial_estimate_or_estimated_damage">> }

ThresholdArgs == {None, Some(0), Some(10000)}

Init ==
    /\ extracted \in RouteRecords
    /\ missing_arg = <<>>
    /\ threshold_arg = None
    /\ missing_out = None
    /\ route_out = None
    /\ rpc = "start"
    /\ ExtractIdle
    /\ ApiIdle

\* missing = get_missing_mandatory_fields(ext)
CallGetMissing ==
    /\ rpc = "start"
    /\ missing_out' = Some(get_missing_mandatory_fields(extracted))
    /\ rpc' = "checked"
    /\ UNCHANGED <<extracted, missing_arg, threshold_arg, route_out>>
    /\ UNCHANGED <<extractVars, apiVars>>

\* compute_route(ext, missing, threshold) with a caller-chosen missing list
CallComputeRoute ==
    /\ rpc = "start"
    /\ \E m \in MissingArgs, t \in ThresholdArgs :
          /\ missing_arg' = m
          /\ threshold_arg' = t
          /\ route_out' = Some(compute_route(extracted, m, t))
    /\ rpc' = "routed"
    /\ UNCHANGED <<extracted, missing_out>>
    /\ UNCHANGED <<extractVars, apiVars>>

\* compute_route(ext, get_missing_mandatory_fields(ext), threshold)
CallComputeRouteChecked ==
    /\ rpc = "checked"
    /\ \E t \in ThresholdArgs :
          /\ missing_arg' = Val(missing_out)
          /\ threshold_arg' = t
          /\ route_out' = Some(compute_route(extracted, Val(missing_out), t))
    /\ rpc' = "routed"
    /\ UNCHANGED <<extracted, missing_out>>
    /\ UNCHANGED <<extractVars, apiVars>>

Next == CallGetMissing \/ CallComputeRoute \/ CallComputeRouteChecked

Spec == Init /\ [][Next]_vars

(***************************************************************************)
(* Properties of the routing engine                                        *)
(***************************************************************************)
Routed == rpc = "routed"

Route == Val(route_out).route

Reasoning == Val(route_out).reasoning

RangeOf(seq) == { seq[k] : k \in 1..Len(seq) }

\* names[1], ", ", names[2], ... built from the left
RECURSIVE JoinedUpTo(_, _)
JoinedUpTo(names, k) ==
    IF k = 1 THEN names[1] ELSE JoinedUpTo(names, k - 1) \o ", " \o names[k]

\* a maximal run of word characters of s that is a keyword, whatever its case
HasKeywordWord(s) ==
    \E i \in 1..Len(s) : \E j \in i..Len(s) :
        /\ \A k \in i..j : IsWordChar(CharAt(s, k))
        /\ (i = 1 \/ ~IsWordChar(CharAt(s, i - 1)))
        /\ (j = Len(s) \/ ~IsWordChar(CharAt(s, j + 1)))
        /\ Lower(SubSeq(s, i, j)) \in {"fraud", "inconsistent", "staged"}

AllWhitespace(s) == \A k \in 1..Len(s) : CharAt(s, k) \in Whitespace

\* absent or blank
Blank(o) == IsNone(o) \/ AllWhitespace(Val(o))

\* s without its leading and trailing whitespace reads "injury", whatever its case
TrimmedIsInjury(o) ==
    /\ ~IsNone(o)
    /\ \E i \in 1..Len(Val(o)) : \E j \in i..Len(Val(o)) :
        /\ AllWhitespace(SubSeq(Val(o), 1, i - 1))
        /\ AllWhitespace(SubSeq(Val(o), j + 1, Len(Val(o))))
        /\ Lower(SubSeq(Val(o), i, j)) = "injury"

Description == OrEmpty(extracted.incident.description)

\* C1: a non-empty missing list always routes to "Manual review", whatever the
\* description, claim type, damage and threshold, and the reasoning holds
\* all names of the list in order, joined by ", ".
C1_MissingForcesManualReview ==
    (Routed /\ missing_arg # <<>>) =>
        /\ Route = "Manual review"
        /\ Contains(Reasoning, JoinedUpTo(missing_arg, Len(missing_arg)))
        /\ \A k \in 1..Len(missing_arg) : Contains(Reasoning, missing_arg[k])

C1_Witness ==
    /\ Routed
    /\ Len(missing_arg) = 3
    /\ Route = "Manual review"
    /\ extracted.incident.description = Some("Possible FRAUD.")
    /\ extracted.claim_type = Some("injury")
    /\ extracted.initial_estimate = Some(0)

\* C2: with an empty missing list, a description holding fraud, inconsistent
\* or staged as a whole word in any case routes to "Investigation Flag" for
\* every claim type, damage and threshold.
C2_KeywordForcesInvestigation ==
    (Routed /\ missing_arg = <<>> /\ HasKeywordWord(Description)) =>
        Route = "Investigation Flag"

C2_Witness ==
    /\ Routed
    /\ missing_arg = <<>>
    /\ extracted.incident.description = Some("Possible FRAUD.")
    /\ extracted.claim_type = Some("injury")
    /\ RouteDamage(extracted) = Some(0)
    /\ threshold_arg = Some(10000)
    /\ Route = "Investigation Flag"

\* C3: with an empty missing list and no keyword in the description, a claim
\* type that trimmed and lower-cased is "injury" routes to "Specialist Queue"
\* for every damage and threshold.
C3_InjuryForcesSpecialist ==
    (Routed /\ missing_arg = <<>> /\ ~HasKeywordWord(Description)
        /\ TrimmedIsInjury(extracted.claim_type)) =>
        Route = "Specialist Queue"

C3_Witness ==
    /\ Routed
    /\ missing_arg = <<>>
    /\ extracted.incident.description = Some("fraudulent claim")
    /\ extracted.claim_type = Some(" Injury ")
    /\ RouteDamage(extracted) = Some(0)
    /\ threshold_arg = None
    /\ Route = "Specialist Queue"

\* the threshold C4 names: the argument when one is passed, else 25000
ClaimedThreshold == IF IsNone(threshold_arg) THEN 25000 ELSE Val(threshold_arg)

\* C4: when rules 1-3 do not match, the route is "Fast-track" exactly when the
\* damage compute_route computed is present and strictly below the threshold,
\* and "Standard" otherwise (also at equality); the threshold is the argument
\* when one is passed, 0 included, and 25000 when none is.
C4_FastTrackIffBelowThreshold ==
    (Routed /\ missing_arg = <<>> /\ ~HasKeywordWord(Description)
        /\ ~TrimmedIsInjury(extracted.claim_type)) =>
        LET damage == RouteDamage(extracted) IN
        Route = IF ~IsNone(damage) /\ Val(damage) < ClaimedThreshold
                THEN "Fast-track" ELSE "Standard"

C4_Witness ==
    /\ Routed
    /\ missing_arg = <<>>
    /\ threshold_arg = Some(0)
    /\ RouteDamage(extracted) = Some(0)
    /\ extracted.claim_type = Some("injured")
    /\ Route = "Standard"

IndexIn(name) == CHOOSE k \in 1..Len(MANDATORY_FIELDS) : MANDATORY_FIELDS[k] = name

\* C5: the result of get_missing_mandatory_fields is a duplicate-free
\* subsequence of the fixed order of the seven names, each name is in it
\* exactly when its datum is absent or blank (the location only when street
\* and city/state/zip both are), and it is empty exactly when all are present.
C5_MissingListExact ==
    (~IsNone(missing_out)) =>
        LET m == Val(missing_out)
            p == extracted.policy
            i == extracted.incident
            absent ==
                << Blank(p.policy_number), Blank(p.policyholder_name),
                   IsNone(i.date),
                   Blank(i.location_street) /\ Blank(i.location_city_state_zip),
                   Blank(i.description), Blank(extracted.claim_type),
                   IsNone(MissingDamage(extracted)) >>
        IN  /\ RangeOf(m) \subseteq RangeOf(MANDATORY_FIELDS)
            /\ \A k \in 1..Len(m) : \A l \in 1..Len(m) :
                   k < l => IndexIn(m[k]) < IndexIn(m[l])
            /\ \A k \in 1..Len(MANDATORY_FIELDS) :
                   (MANDATORY_FIELDS[k] \in RangeOf(m)) <=> absent[k]
            /\ (m = <<>>) <=> (\A k \in 1..Len(MANDATORY_FIELDS) : ~absent[k])

C5_Witness ==
    /\ ~IsNone(missing_out)
    /\ Blank(extracted.incident.location_street)
    /\ ~Blank(extracted.incident.location_city_state_zip)
    /\ Val(missing_out) = <<"policy_number", "incident_description", "claim_type">>

\* the damage C6 names: top-level initial_estimate if present, else
\* asset.estimated_damage if present, else asset.initial_estimate
ClaimedDamage(e) ==
    IF ~IsNone(e.initial_estimate) THEN e.initial_estimate
    ELSE IF IsNone(e.asset) THEN None
    ELSE IF ~IsNone(Val(e.asset).estimated_damage) THEN Val(e.asset).estimated_damage
    ELSE Val(e.asset).initial_estimate

\* C6: both functions compute the same damage, which is the top-level
\* initial_estimate if present, else asset.estimated_damage if present, else
\* asset.initial_estimate, a present zero counting as present at each step;
\* so the damage name is reported missing only when all three are absent.
C6_DamagePrecedence ==
    (~IsNone(missing_out)) =>
        /\ MissingDamage(extracted) = RouteDamage(extracted)
        /\ MissingDamage(extracted) = ClaimedDamage(extracted)
        /\ ("initial_estimate_or_estimated_damage" \in RangeOf(Val(missing_out)))
               <=> IsNone(ClaimedDamage(extracted))

(***************************************************************************)
(* The extractor: documents and calls                                      *)
(***************************************************************************)
\* s repeated n times, built by halves
RECURSIVE Repeat(_, _)
Repeat(s, n) ==
    IF n = 0 THEN ""
    ELSE IF n = 1 THEN s
    ELSE Repeat(s, n \div 2) \o Repeat(s, n - (n \div 2))

\* the lines a document is composed of, one choice per group:
\*   headers: a heading line: none, the ACORD form title, the marker in lower case
\*   policy: the policy number under the ACORD caption and under a generic one
\*   insured: the policyholder: ACORD caption with its hint, generic caption, a bare caption
\*   incident: date, time and place of the loss, in the ACORD and in the generic layout
\*   contact: the claimant's contact data, absent or present
\*   asset: the insured asset: none, make/model/year, an empty MAKE box, VIN and estimate
\*   description: the narrative, with injury words inside it and outside it,
\*                and with investigation keywords
\*   carrier: the ACORD carrier line, its policy number with and without a slash
\*   party: the driver and owner boxes: none, both filled, the driver's box
\*          holding its hint, both holding a hint
\*   estimate: the estimate: zero, the fast-track threshold, not a number, two
\*             periods, and make/model boxes that hold only a label
\*   long: values longer than the lengths the extractor documents
DocLines ==
    [ headers |->
        << "",
           "ACORD 2 Automobile Loss Notice\n",
           "acord form\n" >>,
      policy |->
        << "POLICY NUMBER: POL-2024-887654\n",
           "Policy #: ABC-123\n" >>,
      insured |->
        << "NAME OF INSURED (First, Middle, Last) Jane Doe\n",
           "Insured: John Smith\n",
           "INSURED'S MAILING ADDRESS\n" >>,
      incident |->
        << "DATE OF LOSS AND TIME 03/15/2024 2:30 PM\nLOCATION OF LOSS STREET: 4500 Interstate 35 CITY, STATE, ZIP: Austin, TX 78701\n",
           "Loss date: 2/3/2024\nLocation: 12 Elm St\n" >>,
      contact |->
        << "",
           "PRIMARY PHONE # 512-555-0101\nPRIMARY E-MAIL: a@b.co\n" >>,
      asset |->
        << "",
           "MAKE: Honda MODEL: Accord YEAR: 2021\n",
           "MAKE:  YEAR: 2021\n",
           "V.I.N.: 1HGCM82633A004352\nESTIMATE AMOUNT: $4,200\nPhotos attached.\n" >>,
      description |->
        << "DESCRIPTION OF ACCIDENT Vehicle struck from behind.\nDriver was injured.\n",
           "Description: Water damage to kitchen.\n",
           "Description of loss: Tree fell on roof.\n\nINJURED PARTY: none\n",
           "INJURY CODE: 0\n",
           "Description: Minor Injury to passenger.\n",
           "Description: Staged collision, possible fraud.\n" >>,
      carrier |->
        << "NAIC CODE: 12345 CARRIER: Acme POLICY NUMBER: POL/2024/77\n",
           "NAIC CODE: 12345 CARRIER: Acme POLICY NUMBER: POL-77\n" >>,
      party |->
        << "",
           "DRIVER'S NAME AND ADDRESS Bob Roe, 1 Oak St\nOWNER'S NAME AND ADDRESS Ann Poe\n",
           "DRIVER'S NAME AND ADDRESS (Check if same as owner)\nOWNER'S NAME AND ADDRESS Ann Poe\n",
           "DRIVER'S NAME AND ADDRESS (Check if same as owner)\nOWNER'S NAME AND ADDRESS SAME AS INSURED\n" >>,
      estimate |->
        << "Estimate: 0\n",
           "Estimate: 25000\n",
           "ESTIMATE AMOUNT: TBD\n",
           "Initial estimate: 1.2.3\n",
           "MAKE: OTHER MODEL: OTHER BODY TYPE: sedan\n" >>,
      long |->
        << "NAME OF INSURED (First, Middle, Last) " \o Repeat("Jane Doe ", 23) \o "\n"
             \o "LOCATION OF LOSS STREET: " \o Repeat("4500 Interstate 35 ", 16) \o "\n"
             \o "CITY, STATE, ZIP: " \o Repeat("Austin, TX 78701 ", 6) \o "\n"
             \o "COUNTRY: " \o Repeat("United States ", 6) \o "\n"
             \o "PRIMARY PHONE # " \o Repeat("512-555-0101 ", 4) \o "\n"
             \o "Description: Water damage to kitchen.\n",
           "NAME OF INSURED (First, Middle, Last) Jane Doe\nLoss date: 2/3/2024\nLocation: 12 Elm St\n"
             \o "Description: " \o Repeat("Tree fell.", 200) \o "\n",
           "NAME OF INSURED (First, Middle, Last) Jane Doe\nLoss date: 2/3/2024\nLocation: 12 Elm St\n"
             \o "Description: " \o Repeat("Tree fell.", 200) \o "!\n" >> ]

\* the choices of a group
Choices(lines) == { lines[k] : k \in 1..Len(lines) }

\* documents sent as text, the lines in form order: every heading, incident,
\* asset and narrative on a fixed policy block; every policy block, incident
\* and asset under a fixed heading and narrative; every carrier line, party
\* block and estimate with and without a policyholder; and the long values
\* under a fixed policy number
TextDocs ==
    { h \o DocLines.policy[1] \o DocLines.insured[1] \o inc \o DocLines.contact[2]
        \o a \o d :
        h \in Choices(DocLines.headers), inc \in Choices(DocLines.incident),
        a \in Choices(DocLines.asset), d \in Choices(DocLines.description) }
      \cup
    { DocLines.headers[2] \o p \o i \o inc \o c \o a \o DocLines.description[2] :
        p \in Choices(DocLines.policy), i \in Choices(DocLines.insured),
        inc \in Choices(DocLines.incident), c \in Choices(DocLines.contact),
        a \in Choices(DocLines.asset) }
      \cup
    { p \o i \o DocLines.incident[2] \o pt \o DocLines.contact[2] \o e
        \o DocLines.description[2] :
        p \in Choices(DocLines.carrier),
        i \in {DocLines.insured[2], DocLines.insured[3]},
        pt \in Choices(DocLines.party), e \in Choices(DocLines.estimate) }
      \cup
    { DocLines.policy[1] \o l : l \in Choices(DocLines.long) }

\* documents sent as a PDF of two pages, given by the text of each page
PdfDocs ==
    { << h \o DocLines.policy[1] \o DocLines.insured[1], a \o d >> :
        h \in Choices(DocLines.headers),
        a \in {DocLines.asset[2], DocLines.asset[3]},
        d \in Choices(DocLines.description) }

InitExtract ==
    /\ ex_input \in { [kind |-> "text", content |-> t] : t \in TextDocs }
                      \cup { [kind |-> "pdf", pages |-> pg] : pg \in PdfDocs }
    /\ ex_out = None
    /\ ex_accepted = {}
    /\ epc = "start"
    /\ pe_out = None
    /\ RouteIdle
    /\ ApiIdle

\* out = extract_from_text(content)
CallExtractFromText ==
    /\ epc = "start"
    /\ ex_input.kind = "text"
    /\ ex_out' = Some(extract_from_text(ex_input.content))
    /\ ex_accepted' = ExtractionRun(ex_input.content).accepted
    /\ epc' = "done"
    /\ UNCHANGED <<ex_input, pe_out>>
    /\ UNCHANGED <<routeVars, apiVars>>

\* out = extract_from_pdf(path)
CallExtractFromPdf ==
    /\ epc = "start"
    /\ ex_input.kind = "pdf"
    /\ ex_out' = Some(extract_from_pdf(ex_input.pages))
    /\ ex_accepted' = ExtractionRun(_extract_text_from_pdf(ex_input.pages)).accepted
    /\ epc' = "done"
    /\ UNCHANGED <<ex_input, pe_out>>
    /\ UNCHANGED <<routeVars, apiVars>>

\* process_extracted(extracted), as both handlers call it on what the
\* extractor returned
CallProcessExtracted ==
    /\ epc = "done"
    /\ pe_out' = Some(process_extracted(Val(ex_out)))
    /\ epc' = "processed"
    /\ UNCHANGED <<ex_input, ex_out, ex_accepted>>
    /\ UNCHANGED <<routeVars, apiVars>>

NextExtract == CallExtractFromText \/ CallExtractFromPdf \/ CallProcessExtracted

SpecExtract == InitExtract /\ [][NextExtract]_vars

(***************************************************************************)
(* Properties of the extractor                                             *)
(***************************************************************************)
Extracted == epc = "done"

\* the text the extractor read
DocText ==
    IF ex_input.kind = "text" THEN ex_input.content ELSE Join(ex_input.pages, "\n")

\* the values of the populated string fields C9 lists
PopulatedStrings(r) ==
    ValueSet(r.policy.policy_number) \cup ValueSet(r.policy.policyholder_name)
      \cup ValueSet(r.incident.time) \cup ValueSet(r.incident.location_street)
      \cup ValueSet(r.incident.location_city_state_zip)
      \cup ValueSet(r.incident.location_country)
      \cup ValueSet(r.incident.description)
      \cup (IF IsNone(r.claimant) THEN {}
            ELSE ValueSet(Val(r.claimant).name) \cup ValueSet(Val(r.claimant).phone)
                   \cup ValueSet(Val(r.claimant).email))
      \cup (IF IsNone(r.asset) THEN {}
            ELSE ValueSet(Val(r.asset).asset_id) \cup ValueSet(Val(r.asset).make)
                   \cup ValueSet(Val(r.asset).model))

\* C9: in every returned record, each populated string field (policy number,
\* policyholder name, incident time, the three location fields, description,
\* claimant name/phone/email, asset id, make, model) holds a value that the
\* label/placeholder classifier was called on and accepted, and no stored
\* string is empty.
C9_StoredOnlyIfClassifierAccepted ==
    Extracted =>
        \A v \in PopulatedStrings(Val(ex_out)) : v # "" /\ v \in ex_accepted

InjuryWords == {"injury", "injured"}

AutoWords == {"vehicle", "automobile", "auto", "acord"}

\* the stored description, lower-cased, has an injury word
InjuryInDescription(r) ==
    /\ ~IsNone(r.incident.description)
    /\ \E w \in InjuryWords : Contains(Lower(Val(r.incident.description)), w)

\* the whole document has an auto word or the ACORD marker, in any case
AutoInDocument == \E w \in AutoWords : Contains(Lower(DocText), w)

C11_EstimatesAgree ==
    Extracted =>
        LET r == Val(ex_out)
        IN  IF IsNone(r.asset) THEN IsNone(r.initial_estimate)
            ELSE /\ r.initial_estimate = Val(r.asset).initial_estimate
                 /\ Val(r.asset).initial_estimate = Val(r.asset).estimated_damage

\* an estimate of zero was read: the asset and the record both carry 0
C11_Witness ==
    /\ Extracted
    /\ ~IsNone(Val(ex_out).asset)
    /\ Val(Val(ex_out).asset).estimated_damage = Some(0)
    /\ Val(ex_out).initial_estimate = Some(0)

Processed == epc = "processed"

\* the keys of a flattened dictionary
KeysOf(flat) == { flat[k][1] : k \in 1..Len(flat) }

\* the value under a key that the dictionary has
ValueAt(flat, key) == flat[CHOOSE k \in 1..Len(flat) : flat[k][1] = key][2]

\* the string leaves of a party under a prefix; all absent without the party
PartyLeaves(prefix, party) ==
    { <<prefix \o f, IF IsNone(party) THEN None ELSE Val(party)[f]>> :
        f \in {"name", "address", "phone", "email", "relation_to_insured"} }

\* the string leaves of a record: <<flattened key, Optional stored value>>
StringLeaves(r) ==
    { <<"policy_policy_number", r.policy.policy_number>>,
      <<"policy_policyholder_name", r.policy.policyholder_name>>,
      <<"incident_time", r.incident.time>>,
      <<"incident_location_street", r.incident.location_street>>,
      <<"incident_location_city_state_zip", r.incident.location_city_state_zip>>,
      <<"incident_location_country", r.incident.location_country>>,
      <<"incident_description", r.incident.description>>,
      <<"claim_type", r.claim_type>> }
      \cup PartyLeaves("claimant_", r.claimant)
      \cup PartyLeaves("contact_", r.contact_details)
      \cup { <<"asset_" \o f, IF IsNone(r.asset) THEN None ELSE Val(r.asset)[f]>> :
               f \in {"asset_type", "asset_id", "make", "model"} }

\* the numeric leaves of a record
NumberLeaves(r) ==
    { <<"initial_estimate", r.initial_estimate>> }
      \cup { <<"asset_" \o f, IF IsNone(r.asset) THEN None ELSE Val(r.asset)[f]>> :
               f \in {"year", "estimated_damage", "initial_estimate"} }

\* the date leaves of a record, emitted in ISO form
DateLeaves(r) ==
    { <<"policy_effective_date_start", r.policy.effective_date_start>>,
      <<"policy_effective_date_end", r.policy.effective_date_end>>,
      <<"incident_date", r.incident.date>> }

\* the key of a leaf is in the dictionary exactly when the leaf is populated
EmittedIffPopulated(flat, leaf) == (leaf[1] \in KeysOf(flat)) <=> ~IsNone(leaf[2])

\* a populated leaf stands under its key with exactly the stored value
EmittedVerbatim(flat, leaf) == ~IsNone(leaf[2]) => ValueAt(flat, leaf[1]) = Val(leaf[2])

\* C12: to_flat_dict emits a key for a leaf field if and only if that field is
\* populated: no emitted value is null (every key that is present is the key
\* of a populated leaf or of a non-empty attachments list, and no key occurs
\* twice), attachments is emitted only when the list is non-empty, top-level
\* initial_estimate only when present, and every populated string leaf of
\* policy, incident, claimant, contact_details and asset appears under its
\* prefixed key with exactly the stored value.
C12_FlatDictEmitsExactlyPopulated ==
    Processed =>
        LET r == Val(ex_out)
            flat == Val(pe_out).extractedFields
            leaves == StringLeaves(r) \cup NumberLeaves(r) \cup DateLeaves(r)
        IN  /\ Cardinality(KeysOf(flat)) = Len(flat)
            /\ KeysOf(flat) \subseteq { l[1] : l \in leaves } \cup {"attachments"}
            /\ \A l \in leaves : EmittedIffPopulated(flat, l)
            /\ \A l \in StringLeaves(r) \cup NumberLeaves(r) : EmittedVerbatim(flat, l)
            /\ ("attachments" \in KeysOf(flat)) <=> (r.attachments # <<>>)
            /\ ("attachments" \in KeysOf(flat))
                   => ValueAt(flat, "attachments") = r.attachments

\* a record with a claimant that has a phone and an e-mail, no country, an
\* attachment and an estimate was flattened
C12_Witness ==
    /\ Processed
    /\ ~IsNone(Val(ex_out).claimant)
    /\ ~IsNone(Val(Val(ex_out).claimant).phone)
    /\ ~IsNone(Val(Val(ex_out).claimant).email)
    /\ IsNone(Val(ex_out).incident.location_country)
    /\ Val(ex_out).attachments # <<>>
    /\ ~IsNone(Val(ex_out).initial_estimate)
    /\ "claimant_phone" \in KeysOf(Val(pe_out).extractedFields)
    /\ "incident_location_country" \notin KeysOf(Val(pe_out).extractedFields)

\* the first candidate of a cascade that the classifier accepted, else None
FirstAccepted(candidates) ==
    LET hits == { k \in 1..Len(candidates) : ~IsNone(candidates[k]) }
    IN  IF hits = {} THEN None
        ELSE candidates[CHOOSE k \in hits : \A j \in hits : k <= j]

\* C13: for each field extracted by a pattern cascade, the stored value is the
\* first candidate, in the documented pattern order, that the classifier
\* accepts. For the policy number: once the form-specific "POLICY NUMBER:"
\* capture has been accepted, neither the combined "NAIC CODE ... CARRIER ...
\* POLICY NUMBER:" capture nor the generic capture changes the stored value.
C13_FirstAcceptedCandidateWins ==
    Extracted =>
        LET r == Val(ex_out)
            c == Searches(DocText, Lower(DocText))
        IN  /\ r.policy.policy_number
                   = FirstAccepted(<<c.pn_form, c.pn_naic, c.pn_generic>>)
            /\ ~IsNone(c.pn_form) => r.policy.policy_number = c.pn_form
            /\ r.policy.policyholder_name = FirstAccepted(<<c.ph_form, c.ph_generic>>)
            /\ r.incident.description
                   = FirstAccepted(<<c.desc_form, c.desc_generic, c.desc_any>>)

\* C14: in every record returned by the extractor, asset is present only if at
\* least one of asset_id (VIN), make, model, year, or the estimate value
\* (estimated_damage/initial_estimate) is populated in it; an asset whose
\* only populated field is asset_type is never produced.
C14_AssetOnlyWhenPopulated ==
    Extracted =>
        LET r == Val(ex_out)
        IN  ~IsNone(r.asset) =>
                LET a == Val(r.asset)
                IN  \/ ~IsNone(a.asset_id) \/ ~IsNone(a.make) \/ ~IsNone(a.model)
                    \/ ~IsNone(a.year)
                    \/ ~IsNone(a.estimated_damage) \/ ~IsNone(a.initial_estimate)

\* an Optional[str] that is absent or of at most `cap` characters
AtMost(o, cap) == IsNone(o) \/ Len(Val(o)) <= cap

\* the start positions of `sub` in s
Occurrences(s, sub) ==
    { i \in 1..(Len(s) - Len(sub) + 1) : SubSeq(s, i, i + Len(sub) - 1) = sub }

\* the narrative of a document whose only description caption is a generic
\* "Description:" that opens its last line; None for any other document
LastLineNarrative(text) ==
    LET at == Occurrences(Lower(text), "description")
        i == CHOOSE k \in at : TRUE
        rest == SubSeq(text, i + Len("description"), Len(text))
    IN  IF /\ Cardinality(at) = 1
           /\ Len(rest) > 3
           /\ SubSeq(rest, 1, 2) = ": "
           /\ Occurrences(rest, "\n") = {Len(rest)}
        THEN Some(Strip(SubSeq(rest, 3, Len(rest))))
        ELSE None

\* C15: in every record returned by the extractor, each stored string respects
\* its documented length cap for every input text: description at most 2000
\* characters (a description of up to 2000 characters kept in full, a longer
\* one cut to exactly its first 2000), policyholder name at most 200, location
\* street at most 300, location city/state/zip at most 100, location country
\* at most 80, claimant phone at most 50.
C15_LengthCaps ==
    Extracted =>
        LET r == Val(ex_out)
            told == LastLineNarrative(DocText)
        IN  /\ AtMost(r.incident.description, 2000)
            /\ ~IsNone(told) =>
                   r.incident.description
                     = Some(IF Len(Val(told)) <= 2000 THEN Val(told)
                            ELSE SubSeq(Val(told), 1, 2000))
            /\ AtMost(r.policy.policyholder_name, 200)
            /\ AtMost(r.incident.location_street, 300)
            /\ AtMost(r.incident.location_city_state_zip, 100)
            /\ AtMost(r.incident.location_country, 80)
            /\ IsNone(r.claimant) \/ AtMost(Val(r.claimant).phone, 50)

\* C16: the claimant is established by the ordered cascade: the accepted
\* "DRIVER'S NAME AND ADDRESS" capture; else the accepted "OWNER'S NAME AND
\* ADDRESS" capture; else the policyholder name if one was extracted; else
\* claimant is absent. In every returned record contact_details is identical
\* to claimant (both absent or the same party), and claimant phone and email
\* are populated only when a claimant was established.
C16_ClaimantCascade ==
    Extracted =>
        LET r == Val(ex_out)
            c == Searches(DocText, Lower(DocText))
            established ==
                FirstAccepted(<<c.driver, c.owner, r.policy.policyholder_name>>)
        IN  /\ IsNone(r.claimant) <=> IsNone(established)
            /\ ~IsNone(r.claimant) => Val(r.claimant).name = established
            /\ r.contact_details = r.claimant
            /\ IsNone(established) =>
                   \A k \in KeysOf(to_flat_dict(r)) :
                       k \notin {"claimant_phone", "claimant_email",
                                 "contact_phone", "contact_email"}

\* the driver's box holds its hint and is rejected, the owner's box is
\* accepted, and the claimant carries the owner's name
C16_Witness ==
    /\ Extracted
    /\ Contains(DocText, "DRIVER'S NAME AND ADDRESS (Check if same as owner)")
    /\ ~IsNone(Val(ex_out).policy.policyholder_name)
    /\ ~IsNone(Val(ex_out).claimant)
    /\ Val(Val(ex_out).claimant).name = Some("Ann Poe")
    /\ Val(ex_out).contact_details = Val(ex_out).claimant

\* some damage value is populated in the record
HasDamageValue(r) ==
    \/ ~IsNone(r.initial_estimate)
    \/ /\ ~IsNone(r.asset)
       /\ (~IsNone(Val(r.asset).estimated_damage) \/ ~IsNone(Val(r.asset).initial_estimate))

\* C17: in every response built by process_extracted (the missing list is the
\* one computed by get_missing_mandatory_fields on the same record),
\* recommendedRoute is "Manual review" if and only if missingFields is
\* non-empty, and recommendedRoute "Standard" implies that the damage is
\* present and greater than or equal to the threshold, so the Standard
\* reasoning is never produced for a record without a damage value.
C17_ManualIffMissingAndStandardHasDamage ==
    Processed =>
        LET r == Val(ex_out)
            resp == Val(pe_out)
            standard ==
                \/ resp.recommendedRoute = "Standard"
                \/ Contains(resp.reasoning, "routed to standard workflow")
        IN  /\ resp.missingFields = get_missing_mandatory_fields(r)
            /\ (resp.recommendedRoute = "Manual review") <=> (resp.missingFields # <<>>)
            /\ standard =>
                   /\ HasDamageValue(r)
                   /\ ~IsNone(RouteDamage(r))
                   /\ Val(RouteDamage(r)) >= fast_track_damage_threshold

\* a complete record whose damage equals the threshold was routed Standard
C17_Witness ==
    /\ Processed
    /\ Val(pe_out).missingFields = <<>>
    /\ Val(pe_out).recommendedRoute = "Standard"
    /\ Val(ex_out).initial_estimate = Some(fast_track_damage_threshold)

(***************************************************************************)
(* src/src/main.py: the two upload handlers                                *)
(***************************************************************************)
\* pathlib: Path(filename).suffix. The name is the part after the last "/";
\* the suffix starts at its last "." unless that is its first or last character
PathSuffix(filename) ==
    LET PositionsOf(str, c) == { k \in 1..Len(str) : CharAt(str, k) = c }
        LastOf(set) == CHOOSE k \in set : \A j \in set : j <= k
        slashes == PositionsOf(filename, "/")
        name == IF slashes = {} THEN filename
                ELSE SubSeq(filename, LastOf(slashes) + 1, Len(filename))
        dots == PositionsOf(name, ".")
    IN  IF dots = {} THEN ""
        ELSE IF LastOf(dots) > 1 /\ LastOf(dots) < Len(name)
        THEN SubSeq(name, LastOf(dots), Len(name))
        ELSE ""

\* line 65: (Path(file.filename or "").suffix or "").lower()
UploadSuffix(filename) == Lower(PathSuffix(OrEmpty(filename)))

\* line 101 with the empty-string test only
TextIsRejected_EmptyOnly(content) == content = ""

\* line 101: not (body.content and body.content.strip())
TextIsRejected(content) == content = "" \/ Strip(content) = ""

HTTPException(status_code, detail) ==
    Some([status |-> status_code, detail |-> detail])

\* a 200 response carrying the ClaimsProcessingResponse
Ok(body) == Some([status |-> 200, body |-> body])

(***************************************************************************)
(* The upload handlers: requests and steps                                 *)
(***************************************************************************)
\* requests served in one behaviour
MaxRequests == 2

\* file.filename of an upload (None when the part carries no name)
Filenames ==
    { None, Some("claim.pdf"), Some("CLAIM.PDF"), Some("fnol.txt"), Some("notes.Txt"),
      Some("x.docx"), Some("claim"), Some("uploads/scan.pdf.exe"), Some(".pdf") }

ApiTextDoc ==
    "Policy #: ABC-123\nInsured: John Smith\nLoss date: 2/3/2024\nLocation: 12 Elm St\nDescription: Water damage to kitchen.\nEstimate: 30000\n"

\* an uploaded body: `text` is content.decode("utf-8", errors="replace"),
\* empty exactly for zero bytes; `pages` is the text of the pages PyMuPDF
\* reads from the bytes, None when fitz.open raises on them
FileBodies ==
    { [text |-> "", pages |-> None],
      [text |-> " \n", pages |-> None],
      [text |-> ApiTextDoc, pages |-> None],
      [text |-> "%PDF-1.4", pages |-> Some(
          << "ACORD 2 Automobile Loss Notice\nPOLICY NUMBER: POL-2024-887654\nNAME OF INSURED (First, Middle, Last) Jane Doe\n",
             "DATE OF LOSS AND TIME 03/15/2024 2:30 PM\nLOCATION OF LOSS STREET: 4500 Interstate 35 CITY, STATE, ZIP: Austin, TX 78701\nDESCRIPTION OF ACCIDENT Vehicle struck from behind.\nESTIMATE AMOUNT: $4,200\n" >>)] }

\* body.content of the text endpoint
TextContents == { "", " ", " \n\t", ApiTextDoc, "Description: Driver injured.\n" }

Requests ==
    { [endpoint |-> "file", filename |-> f, body |-> b] :
        f \in Filenames, b \in FileBodies }
      \cup { [endpoint |-> "text", content |-> c] : c \in TextContents }

NoLocals == [id |-> 0, suffix |-> "", path |-> None, extracted |-> None]

InitApi ==
    /\ api_req = None
    /\ api_pc = "idle"
    /\ api_local = NoLocals
    /\ api_calls = <<>>
    /\ api_resp = None
    /\ tmp_files = {}
    /\ served = 0
    /\ RouteIdle
    /\ ExtractIdle

\* the handler raises HTTPException or returns: the request is over
Respond(resp) ==
    /\ api_resp' = resp
    /\ api_pc' = "done"

\* a request arrives at one of the two endpoints
Receive ==
    /\ api_pc \in {"idle", "done"}
    /\ served < MaxRequests
    /\ \E r \in Requests :
          /\ api_req' = Some(r)
          /\ api_pc' = IF r.endpoint = "file" THEN "fnol_suffix" ELSE "text_check"
    /\ served' = served + 1
    /\ api_local' = [NoLocals EXCEPT !.id = served + 1]
    /\ api_calls' = <<>>
    /\ api_resp' = None
    /\ UNCHANGED tmp_files
    /\ UNCHANGED <<routeVars, extractVars>>

\* process_fnol lines 65-70, suffix not supported
FnolRejectSuffix ==
    /\ api_pc = "fnol_suffix"
    /\ UploadSuffix(Val(api_req).filename) \notin {".pdf", ".txt"}
    /\ Respond(HTTPException(400, "Only PDF and TXT files are supported."))
    /\ UNCHANGED <<api_req, api_local, api_calls, tmp_files, served>>
    /\ UNCHANGED <<routeVars, extractVars>>

\* process_fnol lines 65-66, suffix supported
FnolAcceptSuffix ==
    /\ api_pc = "fnol_suffix"
    /\ UploadSuffix(Val(api_req).filename) \in {".pdf", ".txt"}
    /\ api_local' = [api_local EXCEPT !.suffix = UploadSuffix(Val(api_req).filename)]
    /\ api_pc' = "fnol_read"
    /\ UNCHANGED <<api_req, api_calls, api_resp, tmp_files, served>>
    /\ UNCHANGED <<routeVars, extractVars>>

\* process_fnol lines 71-73, no content
FnolRejectEmpty ==
    /\ api_pc = "fnol_read"
    /\ Val(api_req).body.text = ""
    /\ Respond(HTTPException(400, "Empty file."))
    /\ UNCHANGED <<api_req, api_local, api_calls, tmp_files, served>>
    /\ UNCHANGED <<routeVars, extractVars>>

\* process_fnol lines 71-76, content read; the try block is entered
FnolRead ==
    /\ api_pc = "fnol_read"
    /\ Val(api_req).body.text # ""
    /\ api_pc' = IF api_local.suffix = ".pdf" THEN "fnol_tmp" ELSE "fnol_txt"
    /\ UNCHANGED <<api_req, api_local, api_calls, api_resp, tmp_files, served>>
    /\ UNCHANGED <<routeVars, extractVars>>

\* line 77: NamedTemporaryFile(suffix=".pdf", delete=False) creates the file
FnolCreateTmp ==
    /\ api_pc = "fnol_tmp"
    /\ tmp_files' = tmp_files \cup {api_local.id}
    /\ api_pc' = "fnol_write"
    /\ UNCHANGED <<api_req, api_local, api_calls, api_resp, served>>
    /\ UNCHANGED <<routeVars, extractVars>>

\* line 77 raises (no file could be created)
FnolCreateTmpFails ==
    /\ api_pc = "fnol_tmp"
    /\ api_pc' = "fnol_except"
    /\ UNCHANGED <<api_req, api_local, api_calls, api_resp, tmp_files, served>>
    /\ UNCHANGED <<routeVars, extractVars>>

\* lines 78-80: the bytes are written and flushed, path is bound, the file
\* is closed on leaving the with block and, delete being False, kept
FnolWriteTmp ==
    /\ api_pc = "fnol_write"
    /\ api_local' = [api_local EXCEPT !.path = Some(api_local.id)]
    /\ api_pc' = "fnol_pdf"
    /\ UNCHANGED <<api_req, api_calls, api_resp, tmp_files, served>>
    /\ UNCHANGED <<routeVars, extractVars>>

\* lines 78-79 raise (the write or the flush fails): the with block closes
\* the file, delete=False keeps it, path is never bound and the try/finally
\* of lines 81-84 is never entered
FnolWriteTmpFails ==
    /\ api_pc = "fnol_write"
    /\ api_pc' = "fnol_except"
    /\ UNCHANGED <<api_req, api_local, api_calls, api_resp, tmp_files, served>>
    /\ UNCHANGED <<routeVars, extractVars>>

\* lines 81-84: extract_from_pdf returns; finally unlinks path
FnolExtractPdf ==
    /\ api_pc = "fnol_pdf"
    /\ ~IsNone(Val(api_req).body.pages)
    /\ api_calls' = Append(api_calls, "extract_from_pdf")
    /\ api_local' = [api_local EXCEPT
                        !.extracted = Some(extract_from_pdf(Val(Val(api_req).body.pages)))]
    /\ tmp_files' = tmp_files \ {Val(api_local.path)}
    /\ api_pc' = "fnol_return"
    /\ UNCHANGED <<api_req, api_resp, served>>
    /\ UNCHANGED <<routeVars, extractVars>>

\* lines 81-84: extract_from_pdf raises; finally unlinks path
FnolExtractPdfFails ==
    /\ api_pc = "fnol_pdf"
    /\ IsNone(Val(api_req).body.pages)
    /\ api_calls' = Append(api_calls, "extract_from_pdf")
    /\ tmp_files' = tmp_files \ {Val(api_local.path)}
    /\ api_pc' = "fnol_except"
    /\ UNCHANGED <<api_req, api_local, api_resp, served>>
    /\ UNCHANGED <<routeVars, extractVars>>

\* lines 85-87: decode and extract_from_text
FnolExtractTxt ==
    /\ api_pc = "fnol_txt"
    /\ api_calls' = Append(api_calls, "extract_from_text")
    /\ api_local' = [api_local EXCEPT
                        !.extracted = Some(extract_from_text(Val(api_req).body.text))]
    /\ api_pc' = "fnol_return"
    /\ UNCHANGED <<api_req, api_resp, tmp_files, served>>
    /\ UNCHANGED <<routeVars, extractVars>>

\* lines 88-90: any exception of the try block becomes a 422
FnolExcept ==
    /\ api_pc = "fnol_except"
    /\ Respond(HTTPException(422, "Document processing failed"))
    /\ UNCHANGED <<api_req, api_local, api_calls, tmp_files, served>>
    /\ UNCHANGED <<routeVars, extractVars>>

\* line 92: return process_extracted(extracted)
FnolReturn ==
    /\ api_pc = "fnol_return"
    /\ api_calls' = api_calls \o <<"get_missing_mandatory_fields", "compute_route">>
    /\ Respond(Ok(process_extracted(Val(api_local.extracted))))
    /\ UNCHANGED <<api_req, api_local, tmp_files, served>>
    /\ UNCHANGED <<routeVars, extractVars>>

\* process_fnol_text lines 101-102, empty text
TextReject ==
    /\ api_pc = "text_check"
    /\ TextIsRejected(Val(api_req).content)
    /\ Respond(HTTPException(400, "Empty text."))
    /\ UNCHANGED <<api_req, api_local, api_calls, tmp_files, served>>
    /\ UNCHANGED <<routeVars, extractVars>>

\* process_fnol_text line 103
TextExtract ==
    /\ api_pc = "text_check"
    /\ ~TextIsRejected(Val(api_req).content)
    /\ api_calls' = Append(api_calls, "extract_from_text")
    /\ api_local' = [api_local EXCEPT
                        !.extracted = Some(extract_from_text(Val(api_req).content))]
    /\ api_pc' = "text_return"
    /\ UNCHANGED <<api_req, api_resp, tmp_files, served>>
    /\ UNCHANGED <<routeVars, extractVars>>

\* process_fnol_text line 104
TextReturn ==
    /\ api_pc = "text_return"
    /\ api_calls' = api_calls \o <<"get_missing_mandatory_fields", "compute_route">>
    /\ Respond(Ok(process_extracted(Val(api_local.extracted))))
    /\ UNCHANGED <<api_req, api_local, tmp_files, served>>
    /\ UNCHANGED <<routeVars, extractVars>>

NextApi ==
    \/ Receive
    \/ FnolRejectSuffix \/ FnolAcceptSuffix \/ FnolRejectEmpty \/ FnolRead
    \/ FnolCreateTmp \/ FnolCreateTmpFails \/ FnolWriteTmp \/ FnolWriteTmpFails
    \/ FnolExtractPdf \/ FnolExtractPdfFails \/ FnolExtractTxt
    \/ FnolExcept \/ FnolReturn
    \/ TextReject \/ TextExtract \/ TextReturn

SpecApi == InitApi /\ [][NextApi]_vars

(***************************************************************************)
(* Properties of the upload handlers                                       *)
(***************************************************************************)
Done == api_pc = "done"

\* C7: a temporary file created for a PDF upload is deleted on every exit
\* path of its request (extraction succeeded, extraction raised, writing the
\* bytes failed): no request ends with its temporary file still existing.
C7_TempFileDeletedOnEveryExit ==
    Done => api_local.id \notin tmp_files

EndsWith(s, tail) ==
    Len(s) >= Len(tail) /\ SubSeq(s, Len(s) - Len(tail) + 1, Len(s)) = tail

\* the extension of the upload is .pdf or .txt, in any case
SupportedExtension(filename) ==
    /\ ~IsNone(filename)
    /\ \E ext \in {".pdf", ".txt"} : EndsWith(Lower(Val(filename)), ext)

\* unsupported input: a wrong extension or a body of zero bytes at the file
\* endpoint, empty or whitespace-only content at the text endpoint
Unsupported(r) ==
    IF r.endpoint = "file"
    THEN ~SupportedExtension(r.filename) \/ r.body.text = ""
    ELSE r.content = "" \/ AllWhitespace(r.content)

ExtractionPositions ==
    {"fnol_tmp", "fnol_write", "fnol_pdf", "fnol_txt", "fnol_except", "fnol_return",
     "text_return"}

\* C8: at both endpoints a request with unsupported input ends in a
\* client-error response, and neither the extractor nor the mandatory-field
\* checker nor the routing engine is invoked for it; extraction starts only
\* after every input validation has passed.
C8_UnsupportedInputRejectedBeforeCore ==
    (~IsNone(api_req) /\ Unsupported(Val(api_req))) =>
        /\ api_calls = <<>>
        /\ api_pc \notin ExtractionPositions
        /\ Done => (Val(api_resp).status >= 400 /\ Val(api_resp).status <= 499)

\* a whitespace-only text request has ended with a 400 and no core call
C8_Witness ==
    /\ Done
    /\ Val(api_req).endpoint = "text"
    /\ Val(api_req).content # ""
    /\ AllWhitespace(Val(api_req).content)
    /\ Val(api_resp).status = 400
    /\ api_calls = <<>>

=============================================================================
